---- MODULE Spec2Model ----
(***************************************************************************)
(* BossyRust: the termination controller (src/src/process/killer.rs) and   *)
(* the dashboard's bulk kill loop (src/src/tui/app.rs), as a state machine.*)
(*                                                                         *)
(* One invocation of a public operation is modelled from its call to its   *)
(* return.  Every external command (kill, ps, pgrep, lsof) is one step     *)
(* whose outcome the environment chooses: the command cannot be spawned    *)
(* (io error), it exits non-zero, or it exits zero.  An invoked command is *)
(* assumed to return.                                                      *)
(***************************************************************************)
EXTENDS Integers, Sequences, FiniteSets, TLC

\* ------------------------------------------------------------------ bounds
\* Process ids of the environment are 1..MaxPid.
MaxPid == 2
\* Most lines a lookup tool prints, and most PIDs one operation kills.
MaxResolved == 2
\* Port numbers of the environment are 0..MaxPort.
MaxPort == 3
\* events handled in one run of the dashboard
MaxEvents == 6
\* processes in a list that is sorted on its own
MaxListLen == 3
\* The most lines of a netstat listing that is parsed.
MaxLines == 2
\* seconds that pass in one run of the refresh timer
MaxTime == 3

\* ------------------------------------------------------- program constants
\* for _ in 0..50  (kill_graceful)
GracefulPolls == 50
\* for _ in 0..20  (kill_force)
ForcePolls == 20

\* common_dev_processes of cleanup_dev_processes
Catalog ==
    << "node", "npm", "yarn", "webpack", "vite", "next", "python", "django",
       "flask", "rails", "ruby", "php", "artisan", "composer", "java",
       "gradle", "docker", "docker-compose", "redis-server", "postgres" >>

Pids == 1..MaxPid
Ports == 0..MaxPort

VARIABLES
    op,          \* the public operation in progress ("none" before the call)
    pc,          \* position of the control flow
    force,       \* the force argument of kill_process_by_pid
    mode,        \* the protocol function entered: kill_graceful or kill_force
    pid,         \* the pid argument of kill_process_by_pid
    i,           \* iterations completed by the current polling loop
    kres,        \* what kill_process_by_pid returned: "Ok" or the error
    result,      \* what the public operation returned
    \* kill_processes_by_name / dialog loop
    name,        \* the name argument of kill_processes_by_name
    pids,        \* the list the loop iterates over
    pi,          \* number of list elements the loop has taken
    killed_pids, \* kill_processes_by_name's killed_pids
    nres,        \* what kill_processes_by_name returned
    \* cleanup_dev_processes
    ci,          \* number of catalog entries taken
    all_killed,  \* cleanup_dev_processes's killed_pids
    \* dialog loop
    success_count,
    \* find_available_port
    start, end, port, occupied,
    \* observations of the current kill attempt (reset when an attempt starts)
    termSent,    \* kill -TERM invocations
    killSent,    \* kill -KILL invocations
    gPolls,      \* ps invocations of the graceful loop
    fPolls,      \* ps invocations of the forced loop
    gRunning,    \* graceful polls that found the process running
    fRunning,    \* forced polls that found the process running
    sigOk,       \* kill invocations that exited zero
    lastPoll,    \* outcome of the most recent ps invocation
    path,        \* protocol states the attempt went through
    \* observations of the operation; in cleanup_dev_processes, of the
    \* current kill_processes_by_name call
    signalled,   \* pids a kill command was invoked for
    killLog,     \* <<pid, ok>> of every kill attempt that returned, in order
    okLog,       \* pids whose kill attempt returned Ok, in order, over the
                 \* whole operation
    nameExit,    \* how the most recent name lookup ended ("none": not run)
    lookups,     \* the names looked up, in order
    nameErr,     \* whether a kill_processes_by_name call returned an error
    portOut,     \* what the port lookup printed ("none": not run)
    checks,      \* <<port, answer>> of every occupancy check made, in order
    \* one evaluation of matches_search
    rec,         \* the record searched (self)
    query,       \* the query argument, a sequence of characters
    searched,    \* whether matches_search has returned
    matched,     \* what matches_search returned
    \* AppState (src/src/tui/app.rs); mode is app_mode here
    app_mode, should_quit, search_query, search_active, selected_index,
    sort_by, sort_order, show_help, confirmation_dialog,
    critical_confirmation_buffer,
    processes, filtered_processes, ports, filtered_ports,
    connections, filtered_connections,
    selected_items, multi_select_mode, cpu_history,
    \* calls of refresh_data so far, and how the last one ended
    refreshes, lastRefresh,
    \* the time, the time of the last successful refresh_data (of the
    \* construction before the first), in seconds, and AppState.auto_refresh
    now, last_refresh, auto_refresh,
    \* a ProcessMonitor of its own: the time of its last update, the
    \* processes its manager holds, and the refreshes of the manager so far
    last_update, inventory, manager_refreshes,
    \* the kills execute_dialog_action has asked of ProcessKiller: how
    \* many so far, whether the last one returned Ok, and whether the
    \* refresh_data that followed it took the processes anew
    dialog_kills,
    \* events the loop has handled so far
    events,
    \* one call of a function that depends on its arguments only
    input,       \* the arguments
    output,      \* what the function returned
    returned     \* the function that has returned ("none" before the call)

attemptVars ==
    << termSent, killSent, gPolls, fPolls, gRunning, fRunning, sigOk,
       lastPoll, path >>
listVars == << name, pids, pi, killed_pids, nres >>
cleanupVars == << ci, all_killed, lookups, nameErr >>
portVars == << start, end, port, occupied, checks >>
killerVars ==
    << op, pc, force, mode, pid, i, kres, result, attemptVars, listVars,
       cleanupVars, success_count, portVars, signalled, killLog, okLog,
       nameExit, portOut >>
searchVars == << rec, query, searched, matched >>
searchUi == << search_query, search_active >>
sortVars == << sort_by, sort_order >>
dialogVars == << confirmation_dialog, critical_confirmation_buffer >>
dataVars ==
    << processes, ports, connections, cpu_history, refreshes, lastRefresh,
       last_refresh >>
clockVars == << now, auto_refresh >>
monitorVars == << last_update, inventory, manager_refreshes >>
filterVars == << filtered_processes, filtered_ports, filtered_connections >>
selectVars == << selected_items, multi_select_mode >>
appVars ==
    << app_mode, should_quit, searchUi, selected_index, sortVars, show_help,
       dialogVars, dataVars, filterVars, selectVars, dialog_kills, events >>
callVars == << returned, input, output >>
outerVars == << killerVars, searchVars, callVars, clockVars, monitorVars >>
otherVars == << outerVars, dialog_kills >>
dashVars == << searchVars, appVars, callVars, clockVars, monitorVars >>
calleeVars ==
    << killerVars, searchVars, appVars, clockVars, monitorVars >>
vars == << killerVars, dashVars >>

\* ------------------------------------------------------------------ values
\* A Result: tag "None" (not returned), "Ok" or "Err"; err the error kind,
\* num the u32/u16 payload, list the Vec<u32> payload.
Res(tag, err, num, list) == [tag |-> tag, err |-> err, num |-> num, list |-> list]
NoResult == Res("None", "", 0, << >>)
OkUnit == Res("Ok", "", 0, << >>)
OkNum(n) == Res("Ok", "", n, << >>)
OkList(l) == Res("Ok", "", 0, l)
Err(e) == Res("Err", e, 0, << >>)

\* What a lookup tool did: exit "none" (not run), "ioerr", "fail" (non-zero
\* exit status) or "ok" with the lines of its stdout.
Output(exit, out) == [exit |-> exit, out |-> out]
NoOutput == Output("none", << >>)

\* Outcomes of Command::output() followed by status.success().
SigOutcomes == {"ok", "fail", "ioerr"}
PollOutcomes == {"running", "gone", "ioerr"}

\* ----------------------------------------------------------- tool output
\* A line of tool output is a sequence of characters.  The lines the
\* environment prints: a pid in decimal, a pid padded with blanks, a blank
\* line, and text that is no number.
\* Every sample line has at most three characters, so a parsed value is
\* far below u32::MAX and the overflow error of parse::<u32> cannot occur.
DigitChars == << "0", "1", "2", "3", "4", "5", "6", "7", "8", "9" >>
IsDigit(c) == \E d \in 1..10 : DigitChars[d] = c
DigitVal(c) == (CHOOSE d \in 1..10 : DigitChars[d] = c) - 1
IsSpace(c) == c = " "

PidLine(p) == << DigitChars[p + 1] >>
SampleLines ==
    { PidLine(p) : p \in Pids }
        \cup { << " ", "1", " " >>, << " " >>, << "x" >> }

\* str::trim: leading and trailing whitespace removed.
RECURSIVE TrimStart(_)
TrimStart(s) ==
    IF s # << >> /\ IsSpace(Head(s)) THEN TrimStart(Tail(s)) ELSE s
RECURSIVE TrimEnd(_)
TrimEnd(s) ==
    IF s # << >> /\ IsSpace(s[Len(s)])
        THEN TrimEnd(SubSeq(s, 1, Len(s) - 1))
        ELSE s
Trim(s) == TrimEnd(TrimStart(s))

\* Value of a sequence of decimal digits.
RECURSIVE DecimalValue(_)
DecimalValue(s) ==
    IF s = << >> THEN 0
    ELSE 10 * DecimalValue(SubSeq(s, 1, Len(s) - 1)) + DigitVal(s[Len(s)])

\* str::parse::<u32>: an optional '+', then one or more digits; -1 is the
\* parse error.
ParseU32(s) ==
    LET body == IF s # << >> /\ Head(s) = "+" THEN Tail(s) ELSE s
    IN  IF body # << >> /\ \A k \in 1..Len(body) : IsDigit(body[k])
            THEN DecimalValue(body)
            ELSE -1

\* Sequences of at most n elements of S.
SeqsUpTo(S, n) == UNION { [1..k -> S] : k \in 0..n }

\* Whether the parseable lines of an output name pairwise different pids
\* (pgrep and lsof -t print a process once).
DistinctPids(out) ==
    \A a, b \in 1..Len(out) :
        (a # b /\ ParseU32(Trim(out[a])) # -1)
            => ParseU32(Trim(out[a])) # ParseU32(Trim(out[b]))
ToolOutputs(n) == { out \in SeqsUpTo(SampleLines, n) : DistinctPids(out) }

\* find_pids_by_name on the stdout of a pgrep that exited zero: the lines
\* that are not blank, each trimmed and parsed; one parse error fails all.
NonBlank(out) == SelectSeq(out, LAMBDA l : Trim(l) # << >>)
ParsePidLines(out) ==
    LET ls == NonBlank(out)
    IN  IF \E k \in 1..Len(ls) : ParseU32(Trim(ls[k])) = -1
            THEN Err("ParsePid")
            ELSE OkList([k \in 1..Len(ls) |-> ParseU32(Trim(ls[k]))])

\* Mutant: the last line is taken instead of the first.
ParseFirstPid_LastLine(out) ==
    IF out = << >> THEN Err("NotFound")
    ELSE LET v == ParseU32(Trim(out[Len(out)]))
         IN  IF v = -1 THEN Err("ParsePort") ELSE OkNum(v)
\* Mutant: no line at all is parsed as an empty line.
ParseFirstPid_NoLineParsed(out) ==
    LET v == ParseU32(Trim(IF out = << >> THEN << >> ELSE Head(out)))
    IN  IF v = -1 THEN Err("ParsePort") ELSE OkNum(v)
\* find_pid_by_port on the stdout of an lsof that exited zero: the first
\* line, trimmed and parsed; no line at all is "No process found".
ParseFirstPid(out) ==
    IF out = << >> THEN Err("NotFound")
    ELSE LET v == ParseU32(Trim(Head(out)))
         IN  IF v = -1 THEN Err("ParsePort") ELSE OkNum(v)

\* ---------------------------------------------------------------- protocol
InProtocol == pc \in {"running", "graceful", "forced"}

ResetAttempt ==
    /\ termSent' = 0
    /\ killSent' = 0
    /\ gPolls' = 0
    /\ fPolls' = 0
    /\ gRunning' = 0
    /\ fRunning' = 0
    /\ sigOk' = 0
    /\ lastPoll' = "none"
    /\ path' = << "Running" >>
    /\ i' = 0
    /\ kres' = "none"

\* Mutant: the pid is pushed whatever the kill returned.
PushIfOk_Always(list, p, r) == Append(list, p)
\* What the loop keeps of one kill: Ok(()) pushes the pid, Err(e) is printed.
PushIfOk(list, p, r) == IF r = "Ok" THEN Append(list, p) ELSE list

\* kill_process_by_pid has returned to a loop: its frame is gone.
ClearAttempt ==
    /\ termSent' = 0
    /\ killSent' = 0
    /\ gPolls' = 0
    /\ fPolls' = 0
    /\ gRunning' = 0
    /\ fRunning' = 0
    /\ sigOk' = 0
    /\ lastPoll' = "none"
    /\ path' = << >>
    /\ i' = 0
    /\ kres' = "none"
    /\ pid' = 0
    /\ mode' = "none"

\* Mutant: the force argument is ignored.
Dispatch_IgnoresForce(f) == "kill_graceful"
\* kill_process_by_pid: force selects kill_force, else kill_graceful.
Dispatch(f) == IF f THEN "kill_force" ELSE "kill_graceful"

\* Mutant: a TERM that could not be delivered is not looked at, and the
\* polling starts.
SendTerm_FailureIgnored ==
    /\ pc = "running"
    /\ mode = "kill_graceful"
    /\ \E o \in SigOutcomes :
        /\ termSent' = termSent + 1
        /\ signalled' = signalled \cup {pid}
        /\ sigOk' = IF o = "ok" THEN sigOk + 1 ELSE sigOk
        /\ pc' = "graceful"
        /\ i' = 0
        /\ kres' = kres
        /\ path' = Append(path, "WaitingGraceful")
    /\ UNCHANGED << dashVars, op, force, mode, pid, result, killSent, gPolls,
                    fPolls, gRunning, fRunning, lastPoll, listVars,
                    cleanupVars, success_count, portVars, killLog, portOut,
                    okLog, nameExit >>
\* kill_graceful, first part: kill -TERM pid.
SendTerm ==
    /\ pc = "running"
    /\ mode = "kill_graceful"
    /\ \E o \in SigOutcomes :
        /\ termSent' = termSent + 1
        /\ signalled' = signalled \cup {pid}
        /\ sigOk' = IF o = "ok" THEN sigOk + 1 ELSE sigOk
        /\ IF o = "ok"
              THEN /\ pc' = "graceful"
                   /\ i' = 0
                   /\ kres' = kres
                   /\ path' = Append(path, "WaitingGraceful")
              ELSE /\ pc' = "returned"
                   /\ i' = i
                   /\ kres' = IF o = "ioerr" THEN "Io" ELSE "TermFailed"
                   /\ path' = Append(path, "Error")
    /\ UNCHANGED << dashVars, op, force, mode, pid, result, killSent, gPolls, fPolls, gRunning,
                    fRunning, lastPoll, listVars, cleanupVars, success_count,
                    portVars, killLog, portOut, okLog, nameExit >>

\* Mutant: the graceful loop runs once more.
GracefulLoopRuns_OneMore == i <= GracefulPolls
\* The bound of kill_graceful's loop.
GracefulLoopRuns == i < GracefulPolls

\* kill_graceful, one iteration of the loop: ps -p pid, then sleep 100 ms.
PollGraceful ==
    /\ pc = "graceful"
    /\ GracefulLoopRuns
    /\ \E o \in PollOutcomes :
        /\ gPolls' = gPolls + 1
        /\ gRunning' = IF o = "running" THEN gRunning + 1 ELSE gRunning
        /\ lastPoll' = o
        /\ CASE o = "running" ->
                  /\ i' = i + 1
                  /\ UNCHANGED << pc, kres, path >>
             [] o = "gone" ->
                  /\ pc' = "returned"
                  /\ kres' = "Ok"
                  /\ path' = Append(path, "Terminated")
                  /\ i' = i
             [] OTHER ->
                  /\ pc' = "returned"
                  /\ kres' = "Io"
                  /\ path' = Append(path, "Error")
                  /\ i' = i
    /\ UNCHANGED << dashVars, op, force, mode, pid, result, termSent, killSent, fPolls,
                    fRunning, sigOk, listVars, cleanupVars, success_count,
                    portVars, signalled, killLog, portOut, okLog, nameExit >>

\* kill_force is entered from kill_process_by_pid (force) or from
\* kill_graceful once its loop is exhausted.
EntersForce ==
    \/ pc = "running" /\ mode = "kill_force"
    \/ pc = "graceful" /\ ~GracefulLoopRuns

\* kill_force, first part: kill -KILL pid.
SendKill ==
    /\ EntersForce
    /\ \E o \in SigOutcomes :
        /\ killSent' = killSent + 1
        /\ signalled' = signalled \cup {pid}
        /\ sigOk' = IF o = "ok" THEN sigOk + 1 ELSE sigOk
        /\ IF o = "ok"
              THEN /\ pc' = "forced"
                   /\ i' = 0
                   /\ kres' = kres
                   /\ path' = Append(path, "WaitingForced")
              ELSE /\ pc' = "returned"
                   /\ i' = i
                   /\ kres' = IF o = "ioerr" THEN "Io" ELSE "KillFailed"
                   /\ path' = Append(path, "Error")
    /\ UNCHANGED << dashVars, op, force, mode, pid, result, termSent, gPolls, fPolls, gRunning,
                    fRunning, lastPoll, listVars, cleanupVars, success_count,
                    portVars, killLog, portOut, okLog, nameExit >>

\* Mutant: the forced loop gives up one poll early.
ForceLoopRuns_OneLess == i < ForcePolls - 1
\* Mutant: the forced loop polls for as long as the process is running.
ForceLoopRuns_Unbounded == TRUE
\* The bound of kill_force's loop.
ForceLoopRuns == i < ForcePolls

\* kill_force, one iteration of the loop: ps -p pid, then sleep 100 ms.
PollForced ==
    /\ pc = "forced"
    /\ ForceLoopRuns
    /\ \E o \in PollOutcomes :
        /\ fPolls' = fPolls + 1
        /\ fRunning' = IF o = "running" THEN fRunning + 1 ELSE fRunning
        /\ lastPoll' = o
        /\ CASE o = "running" ->
                  /\ i' = i + 1
                  /\ UNCHANGED << pc, kres, path >>
             [] o = "gone" ->
                  /\ pc' = "returned"
                  /\ kres' = "Ok"
                  /\ path' = Append(path, "Terminated")
                  /\ i' = i
             [] OTHER ->
                  /\ pc' = "returned"
                  /\ kres' = "Io"
                  /\ path' = Append(path, "Error")
                  /\ i' = i
    /\ UNCHANGED << dashVars, op, force, mode, pid, result, termSent, killSent, gPolls,
                    gRunning, sigOk, listVars, cleanupVars, success_count,
                    portVars, signalled, killLog, portOut, okLog, nameExit >>

\* Mutant: the exhausted forced loop is reported as a success.
ForceTimeout_ReportsOk ==
    /\ pc = "forced"
    /\ ~ForceLoopRuns
    /\ pc' = "returned"
    /\ kres' = "Ok"
    /\ path' = Append(path, "Terminated")
    /\ UNCHANGED << dashVars, op, force, mode, pid, i, result, termSent,
                    killSent, gPolls, fPolls, gRunning, fRunning, sigOk,
                    lastPoll, listVars, cleanupVars, success_count, portVars,
                    signalled, killLog, portOut, okLog, nameExit >>
\* kill_force, after the loop: "still running after SIGKILL".
ForceTimeout ==
    /\ pc = "forced"
    /\ ~ForceLoopRuns
    /\ pc' = "returned"
    /\ kres' = "StillRunning"
    /\ path' = Append(path, "Failed")
    /\ UNCHANGED << dashVars, op, force, mode, pid, i, result, termSent, killSent, gPolls,
                    fPolls, gRunning, fRunning, sigOk, lastPoll, listVars,
                    cleanupVars, success_count, portVars, signalled,
                    killLog, portOut, okLog, nameExit >>

\* ----------------------------------------------------- kill_process_by_pid
CallKillByPid ==
    /\ pc = "idle"
    /\ \E p \in Pids, f \in BOOLEAN :
        /\ op' = "by_pid"
        /\ pid' = p
        /\ force' = f
        /\ mode' = Dispatch(f)
    /\ pc' = "running"
    /\ ResetAttempt
    /\ UNCHANGED << dashVars, result, listVars, cleanupVars, success_count, portVars,
                    signalled, killLog, portOut, okLog, nameExit >>

ReturnByPid ==
    /\ pc = "returned"
    /\ op = "by_pid"
    /\ result' = IF kres = "Ok" THEN OkUnit ELSE Err(kres)
    /\ killLog' = Append(killLog, << pid, kres = "Ok" >>)
    /\ okLog' = IF kres = "Ok" THEN Append(okLog, pid) ELSE okLog
    /\ pc' = "done"
    /\ UNCHANGED << dashVars, op, force, mode, pid, i, kres, attemptVars, listVars, cleanupVars,
                    success_count, portVars, signalled, portOut, nameExit >>

Protocol == SendTerm \/ PollGraceful \/ SendKill \/ PollForced \/ ForceTimeout

\* ---------------------------------------------------- kill_process_by_port
CallKillByPort ==
    /\ pc = "idle"
    /\ op' = "by_port"
    /\ \E p \in Ports : port' = p
    /\ pc' = "portlookup"
    /\ UNCHANGED << dashVars, force, mode, pid, i, kres, result, attemptVars, listVars,
                    cleanupVars, success_count, start, end, occupied, checks,
                    signalled, killLog, portOut, okLog, nameExit >>

\* find_pid_by_port (lsof -t -i :port), then kill_graceful(pid) is entered
\* or the lookup's error is returned.
FindPidByPort ==
    /\ pc = "portlookup"
    /\ \E o \in {"ioerr", "fail", "ok"}, out \in ToolOutputs(MaxResolved) :
        /\ o # "ok" => out = << >>
        /\ portOut' = Output(o, out)
        /\ LET r == CASE o = "ioerr" -> Err("Io")
                      [] o = "fail" -> Err("NotFound")
                      [] OTHER -> ParseFirstPid(out)
           IN  IF r.tag = "Ok"
                  THEN /\ pid' = r.num
                       /\ mode' = "kill_graceful"
                       /\ pc' = "running"
                                          /\ ResetAttempt
                       /\ UNCHANGED result
                  ELSE /\ result' = r
                       /\ pc' = "done"
                       /\ UNCHANGED << mode, pid, i, kres, attemptVars >>
    /\ UNCHANGED << dashVars, op, force, listVars, cleanupVars, success_count, portVars,
                    signalled, killLog, okLog, nameExit >>

\* kill_graceful(pid).await?; Ok(pid)
ReturnByPort ==
    /\ pc = "returned"
    /\ op = "by_port"
    /\ result' = IF kres = "Ok" THEN OkNum(pid) ELSE Err(kres)
    /\ killLog' = Append(killLog, << pid, kres = "Ok" >>)
    /\ okLog' = IF kres = "Ok" THEN Append(okLog, pid) ELSE okLog
    /\ pc' = "done"
    /\ UNCHANGED << dashVars, op, force, mode, pid, i, kres, attemptVars, listVars,
                    cleanupVars, success_count, portVars, signalled,
                    portOut, nameExit >>

\* -------------------------------------------------- kill_processes_by_name
CallKillByName ==
    /\ pc = "idle"
    /\ op' = "by_name"
    /\ name' = "nonexistent_xyz"
    /\ \E f \in BOOLEAN : force' = f
    /\ pc' = "lookup"
    /\ UNCHANGED << dashVars, mode, pid, i, kres, result, attemptVars, pids, pi,
                    killed_pids, nres, cleanupVars, success_count,
                    portVars, signalled, killLog, portOut, okLog, nameExit >>

\* find_pids_by_name(name)? (pgrep -f name), then killed_pids = Vec::new().
FindPidsByName ==
    /\ pc = "lookup"
    /\ lookups' = Append(lookups, name)
    /\ \E o \in {"ioerr", "fail", "ok"},
          out \in ToolOutputs(MaxResolved - Len(all_killed)) :
        /\ o # "ok" => out = << >>
        /\ nameExit' = o
        /\ LET r == CASE o = "ioerr" -> Err("Io")
                      [] o = "fail" -> OkList(<< >>)
                      [] OTHER -> ParsePidLines(out)
           IN  IF r.tag = "Ok"
                  THEN /\ pids' = r.list
                       /\ pi' = 0
                       /\ killed_pids' = << >>
                       /\ killLog' = << >>
                       /\ signalled' = {}
                       /\ pc' = "nameloop"
                       /\ UNCHANGED nres
                  ELSE /\ nres' = r
                       /\ pc' = "namereturned"
                       /\ UNCHANGED << pids, pi, killed_pids, killLog,
                                       signalled >>
    /\ UNCHANGED << dashVars, op, force, mode, pid, i, kres, result, attemptVars, name,
                    ci, all_killed, nameErr, success_count, portVars,
                    portOut, okLog >>

\* Mutant: the kill is started but not awaited.
LoopAtHead_NotAwaited(head) == pc \in {head, "graceful", "forced"}
\* Whether the loop over pids may take its next element: the kill of the
\* element before has been awaited.
LoopAtHead(head) == pc = head

\* for pid in pids: the next element is taken and kill_process_by_pid(pid,
\* force) is entered.
NameLoopNext ==
    /\ op \in {"by_name", "cleanup"}
    /\ LoopAtHead("nameloop")
    /\ pi < Len(pids)
    /\ pi' = pi + 1
    /\ pid' = pids[pi + 1]
    /\ mode' = Dispatch(force)
    /\ pc' = "running"
    /\ ResetAttempt
    /\ UNCHANGED << dashVars, op, force, result, name, pids, killed_pids, nres,
                    cleanupVars, success_count, portVars, signalled, killLog,
                    portOut, okLog, nameExit >>

\* match kill_process_by_pid(pid, force).await { Ok => push, Err => eprintln }
NameCollect ==
    /\ pc = "returned"
    /\ op \in {"by_name", "cleanup"}
    /\ killed_pids' = PushIfOk(killed_pids, pid, kres)
    /\ killLog' = Append(killLog, << pid, kres = "Ok" >>)
    /\ okLog' = IF kres = "Ok" THEN Append(okLog, pid) ELSE okLog
    /\ pc' = "nameloop"
    /\ ClearAttempt
    /\ UNCHANGED << dashVars, op, force, result, name, pids, pi, nres,
                    cleanupVars, success_count, portVars, signalled,
                    portOut, nameExit >>

\* Ok(killed_pids)
NameLoopEnd ==
    /\ op \in {"by_name", "cleanup"}
    /\ pc = "nameloop"
    /\ pi >= Len(pids)
    /\ nres' = OkList(killed_pids)
    /\ pc' = "namereturned"
    /\ UNCHANGED << dashVars, op, force, mode, pid, i, kres, result, attemptVars, name,
                    pids, pi, killed_pids, cleanupVars,
                    success_count, portVars, signalled, killLog,
                    portOut, okLog, nameExit >>

ReturnByName ==
    /\ pc = "namereturned"
    /\ op = "by_name"
    /\ result' = nres
    /\ pc' = "done"
    /\ UNCHANGED << dashVars, op, force, mode, pid, i, kres, attemptVars, listVars,
                    cleanupVars, success_count, portVars, signalled,
                    killLog, portOut, okLog, nameExit >>

\* --------------------------------------------------- cleanup_dev_processes
CallCleanup ==
    /\ pc = "idle"
    /\ op' = "cleanup"
    /\ ci' = 0
    /\ all_killed' = << >>
    /\ pc' = "cleanuploop"
    /\ UNCHANGED << dashVars, force, mode, pid, i, kres, result, attemptVars, listVars,
                    lookups, nameErr, success_count, portVars, signalled,
                    killLog, portOut, okLog, nameExit >>

\* for process_name in &common_dev_processes:
\* kill_processes_by_name(process_name, false) is entered.
CleanupNext ==
    /\ pc = "cleanuploop"
    /\ ci < Len(Catalog)
    /\ ci' = ci + 1
    /\ name' = Catalog[ci + 1]
    /\ force' = FALSE
    /\ pc' = "lookup"
    /\ UNCHANGED << dashVars, op, mode, pid, i, kres, result, attemptVars, pids, pi,
                    killed_pids, nres, all_killed, lookups, nameErr,
                    success_count, portVars, signalled, killLog,
                    portOut, okLog, nameExit >>

\* Mutant: the pattern's pids replace the list instead of extending it.
ExtendIfOk_Overwrites(list, r) == IF r.tag = "Ok" THEN r.list ELSE list
\* What the catalog loop keeps of one kill_processes_by_name: Ok(pids)
\* extends killed_pids, Err(e) is printed.
ExtendIfOk(list, r) == IF r.tag = "Ok" THEN list \o r.list ELSE list

\* match kill_processes_by_name(..).await { Ok => extend, Err => eprintln }
CleanupCollect ==
    /\ pc = "namereturned"
    /\ op = "cleanup"
    /\ all_killed' = ExtendIfOk(all_killed, nres)
    /\ nameErr' = (nameErr \/ nres.tag = "Err")
    /\ pc' = "cleanuploop"
    /\ pids' = << >>
    /\ pi' = 0
    /\ killed_pids' = << >>
    /\ nres' = NoResult
    /\ killLog' = << >>
    /\ signalled' = {}
    /\ nameExit' = "none"
    /\ UNCHANGED << dashVars, op, force, mode, pid, i, kres, result, attemptVars, name,
                    ci, lookups, success_count, portVars, portOut, okLog >>

\* Ok(killed_pids)
CleanupEnd ==
    /\ pc = "cleanuploop"
    /\ ci >= Len(Catalog)
    /\ result' = OkList(all_killed)
    /\ pc' = "done"
    /\ UNCHANGED << dashVars, op, force, mode, pid, i, kres, attemptVars, listVars,
                    cleanupVars, success_count, portVars, signalled,
                    killLog, portOut, okLog, nameExit >>

\* ------------------------- execute_dialog_action, DialogAction::Processes
\* Lists of pairwise different pids (the pids of the marked rows).
PidLists(n) ==
    { l \in SeqsUpTo(Pids, n) : \A a, b \in 1..Len(l) : a # b => l[a] # l[b] }

CallDialogKill ==
    /\ pc = "idle"
    /\ op' = "dialog"
    /\ \E l \in PidLists(MaxResolved) : pids' = l
    /\ pi' = 0
    /\ success_count' = 0
    /\ force' = FALSE
    /\ pc' = "dialogloop"
    /\ UNCHANGED << dashVars, mode, pid, i, kres, result, attemptVars, name, killed_pids,
                    nres, cleanupVars, portVars, signalled,
                    killLog, portOut, okLog, nameExit >>

\* for pid in pids: kill_process_by_pid(pid, false) is entered.
DialogNext ==
    /\ op = "dialog"
    /\ LoopAtHead("dialogloop")
    /\ pi < Len(pids)
    /\ pi' = pi + 1
    /\ pid' = pids[pi + 1]
    /\ mode' = Dispatch(FALSE)
    /\ pc' = "running"
    /\ ResetAttempt
    /\ UNCHANGED << dashVars, op, force, result, name, pids, killed_pids, nres,
                    cleanupVars, success_count, portVars, signalled, killLog,
                    portOut, okLog, nameExit >>

\* if kill_process_by_pid(pid, false).await.is_ok() { success_count += 1 }
DialogCollect ==
    /\ pc = "returned"
    /\ op = "dialog"
    /\ success_count' = IF kres = "Ok" THEN success_count + 1 ELSE success_count
    /\ killLog' = Append(killLog, << pid, kres = "Ok" >>)
    /\ okLog' = IF kres = "Ok" THEN Append(okLog, pid) ELSE okLog
    /\ pc' = "dialogloop"
    /\ ClearAttempt
    /\ UNCHANGED << dashVars, op, force, result, listVars, cleanupVars, portVars,
                    signalled, portOut, nameExit >>

\* After the loop: "Killed {success_count} processes".
DialogEnd ==
    /\ op = "dialog"
    /\ pc = "dialogloop"
    /\ pi >= Len(pids)
    /\ result' = OkNum(success_count)
    /\ pc' = "done"
    /\ UNCHANGED << dashVars, op, force, mode, pid, i, kres, attemptVars, listVars,
                    cleanupVars, success_count, portVars, signalled,
                    killLog, portOut, okLog, nameExit >>

\* ----------------------------------------------------- find_available_port
CallFindPort ==
    /\ pc = "idle"
    /\ op' = "find_port"
    /\ \E s \in Ports, e \in Ports, occ \in SUBSET Ports :
        /\ start' = s
        /\ end' = e
        /\ occupied' = occ
        /\ port' = s
    /\ pc' = "scan"
    /\ UNCHANGED << dashVars, force, mode, pid, i, kres, result, attemptVars, listVars,
                    cleanupVars, success_count, checks, signalled,
                    killLog, portOut, okLog, nameExit >>

\* Mutant: the range excludes its end (start_port..end_port).
InRange_ExclusiveEnd(p, s, e) == s <= p /\ p < e
\* The bound of the scan: for port in start_port..=end_port.
InRange(p, s, e) == s <= p /\ p <= e

\* is_port_available: lsof -i :port exits zero exactly when something uses
\* the port; a non-zero exit status means the port is available.
IsPortAvailable(p, occ) == p \notin occ

\* One iteration of the scan: is_port_available(port)?.
CheckPort ==
    /\ pc = "scan"
    /\ InRange(port, start, end)
    /\ \E spawned \in BOOLEAN :
        LET answer == IF ~spawned THEN "ioerr"
                      ELSE IF IsPortAvailable(port, occupied) THEN "free"
                      ELSE "occupied"
        IN  /\ checks' = Append(checks, << port, answer >>)
            /\ CASE answer = "free" ->
                      /\ result' = OkNum(port)
                      /\ pc' = "done"
                      /\ port' = port
                 [] answer = "occupied" ->
                      /\ port' = port + 1
                      /\ UNCHANGED << result, pc >>
                 [] OTHER ->
                      /\ result' = Err("Io")
                      /\ pc' = "done"
                      /\ port' = port
    /\ UNCHANGED << dashVars, op, force, mode, pid, i, kres, attemptVars, listVars,
                    cleanupVars, success_count, start, end, occupied,
                    signalled, killLog, portOut, okLog, nameExit >>

\* After the scan: "No available port found in range".
ScanEnd ==
    /\ pc = "scan"
    /\ ~InRange(port, start, end)
    /\ result' = Err("RangeExhausted")
    /\ pc' = "done"
    /\ UNCHANGED << dashVars, op, force, mode, pid, i, kres, attemptVars, listVars,
                    cleanupVars, success_count, portVars, signalled,
                    killLog, portOut, okLog, nameExit >>

\* ============================================================ search patterns
\* matches_search of the three record kinds (process/info.rs,
\* network/ports.rs, network/connections.rs).  A string is a sequence of
\* characters.

\* ------------------------------------------------------------------ strings
LowerChars ==
    << "a", "b", "c", "d", "e", "f", "g", "h", "i", "j", "k", "l", "m",
       "n", "o", "p", "q", "r", "s", "t", "u", "v", "w", "x", "y", "z" >>
UpperChars ==
    << "A", "B", "C", "D", "E", "F", "G", "H", "I", "J", "K", "L", "M",
       "N", "O", "P", "Q", "R", "S", "T", "U", "V", "W", "X", "Y", "Z" >>

\* str::to_lowercase, character by character.
ToLowerChar(c) ==
    IF \E k \in DOMAIN UpperChars : UpperChars[k] = c
        THEN LowerChars[CHOOSE k \in DOMAIN UpperChars : UpperChars[k] = c]
        ELSE c
ToLowercase(s) == [k \in 1..Len(s) |-> ToLowerChar(s[k])]

\* str::contains: the needle occurs somewhere in the haystack (the empty
\* needle occurs in every string).
Contains(hay, needle) ==
    \E k \in 0..(Len(hay) - Len(needle)) :
        SubSeq(hay, k + 1, k + Len(needle)) = needle

\* str::strip_prefix / strip_suffix: whether it is Some, and the rest.
HasPrefix(s, p) == Len(s) >= Len(p) /\ SubSeq(s, 1, Len(p)) = p
AfterPrefix(s, p) == SubSeq(s, Len(p) + 1, Len(s))
HasSuffix(s, p) ==
    Len(s) >= Len(p) /\ SubSeq(s, Len(s) - Len(p) + 1, Len(s)) = p
BeforeSuffix(s, p) == SubSeq(s, 1, Len(s) - Len(p))

\* u32::to_string / u16::to_string: the decimal form, no leading zero.
RECURSIVE NumToString(_)
NumToString(n) ==
    IF n < 10 THEN << DigitChars[n + 1] >>
    ELSE NumToString(n \div 10) \o << DigitChars[(n % 10) + 1] >>

\* Option<T>
None == [some |-> FALSE]
Some(v) == [some |-> TRUE, v |-> v]

\* u16::MAX
U16Max == 65535

\* str::parse::<u16>: as parse::<u32>, and a value above u16::MAX is an
\* error; -1 is the parse error.  (No query has more than nine digits, so
\* a value parsed as u32 is below u32::MAX.)
ParseU16(s) ==
    LET v == ParseU32(s)
    IN  IF v > U16Max THEN -1 ELSE v

\* f32 values: a number, NaN or an infinity.  FErr is the parse error.
Num(v) == [k |-> "num", v |-> v]
NaN == [k |-> "nan", v |-> 0]
PosInf == [k |-> "inf", v |-> 0]
NegInf == [k |-> "ninf", v |-> 0]
FErr == [k |-> "err", v |-> 0]

\* str::parse::<f32> on a string without fraction and exponent: an optional
\* sign, then digits, "inf", "infinity" or "nan" (the query is lower-cased
\* before it is parsed).
ParseF32(s) ==
    LET signed == s # << >> /\ Head(s) \in {"+", "-"}
        neg == signed /\ Head(s) = "-"
        body == IF signed THEN Tail(s) ELSE s
    IN  IF body \in { << "i", "n", "f" >>,
                      << "i", "n", "f", "i", "n", "i", "t", "y" >> }
            THEN IF neg THEN NegInf ELSE PosInf
        ELSE IF body = << "n", "a", "n" >> THEN NaN
        ELSE IF body # << >> /\ \A k \in 1..Len(body) : IsDigit(body[k])
            THEN Num(IF neg THEN 0 - DecimalValue(body) ELSE DecimalValue(body))
        ELSE FErr

\* Mutant: the comparison admits equal values.
FGt_OrEqual(a, b) ==
    CASE a.k = "nan" \/ b.k = "nan" -> FALSE
      [] b.k = "inf" -> a.k = "inf"
      [] b.k = "ninf" -> TRUE
      [] a.k = "inf" -> TRUE
      [] a.k = "ninf" -> FALSE
      [] OTHER -> a.v >= b.v
\* a > b on f32: false when either side is NaN.
FGt(a, b) ==
    CASE a.k = "nan" \/ b.k = "nan" -> FALSE
      [] b.k = "inf" -> FALSE
      [] b.k = "ninf" -> a.k # "ninf"
      [] a.k = "inf" -> TRUE
      [] a.k = "ninf" -> FALSE
      [] OTHER -> a.v > b.v

\* 1024.0 * 1024.0 and 1024.0 * 1024.0 * 1024.0
MiB == 1048576
GiB == 1073741824

\* f32 has a significand of 24 bits.
Significand == 16777216
\* The distance of neighbouring f32 values around the byte count n (below
\* 2^31): the power of two q with 2^23 <= n / q < 2^24, or 1.
Ulp(n) ==
    CHOOSE q \in {1, 2, 4, 8, 16, 32, 64, 128} :
        /\ n \div q < Significand
        /\ q = 1 \/ n \div q >= Significand \div 2
\* memory as f32 of a u64 byte count: the nearest f32 value, a tie going to
\* the even significand.
AsF32(n) ==
    LET q == Ulp(n)
        r == n % q
        lo == n - r
    IN  IF 2 * r < q THEN lo
        ELSE IF 2 * r > q THEN lo + q
        ELSE IF (lo \div q) % 2 = 0 THEN lo
        ELSE lo + q

\* m / unit > threshold, with m the byte count as f32 and unit a power of
\* 1024 (the divisions are exact): the quotient exceeds an integer
\* threshold when its whole part does, or equals it with a remainder left.
RatioGt(memory, unit, t) ==
    CASE t.k = "nan" -> FALSE
      [] t.k = "inf" -> FALSE
      [] t.k = "ninf" -> TRUE
      [] OTHER -> \/ memory \div unit > t.v
                  \/ memory \div unit = t.v /\ memory % unit > 0

\* ------------------------------------------------------------------ records
\* ProcessInfo, PortInfo, ConnectionInfo: the fields matches_search reads
\* (and those the views sort by).
ProcessInfo(p, n, c, m) ==
    [kind |-> "process", pid |-> p, name |-> n, cpu_usage |-> c, memory |-> m]
PortInfo(po, p, pn, sn) ==
    [kind |-> "port", port |-> po, pid |-> p, process_name |-> pn,
     service_name |-> sn]
\* An IPv4 socket address: the octets and the port.
Ip(a, b, c, d) == << a, b, c, d >>
SocketAddr(ip, po) == [ip |-> ip, port |-> po]
ConnectionInfo(la, ra, p, pn) ==
    [kind |-> "connection", local_address |-> la, remote_address |-> ra,
     pid |-> p, process_name |-> pn]
NoRecord == [kind |-> "none"]

\* SocketAddr::to_string: the octets in decimal joined by dots, a colon,
\* the port.
IpToString(ip) ==
    NumToString(ip[1]) \o << "." >> \o NumToString(ip[2]) \o << "." >>
        \o NumToString(ip[3]) \o << "." >> \o NumToString(ip[4])
AddrToString(a) == IpToString(a.ip) \o << ":" >> \o NumToString(a.port)

\* ---------------------------------------------------------- matches_search
\* ProcessInfo::matches_search, the default name-based search.
ProcessFallback(r, q) == Contains(ToLowercase(r.name), q)

\* Mutant: the '#' pattern is not recognised, every query is a name search.
MatchesSearchProcess_NameOnly(r, q0) == ProcessFallback(r, ToLowercase(q0))
\* Mutant: a prefixed query whose remainder does not parse matches nothing.
MatchesSearchProcess_MalformedFalse(r, q0) ==
    LET q == ToLowercase(q0)
    IN  IF HasPrefix(q, << "#" >>)
            THEN ParseU32(AfterPrefix(q, << "#" >>)) = r.pid
        ELSE IF HasPrefix(q, << ">" >>)
            THEN LET rq == AfterPrefix(q, << ">" >>)
                 IN  /\ HasSuffix(rq, << "%" >>)
                     /\ ParseF32(BeforeSuffix(rq, << "%" >>)).k # "err"
                     /\ FGt(r.cpu_usage, ParseF32(BeforeSuffix(rq, << "%" >>)))
        ELSE ProcessFallback(r, q)
\* ProcessInfo::matches_search
MatchesSearchProcess(r, q0) ==
    LET q == ToLowercase(q0)
        fallback == ProcessFallback(r, q)
    IN  IF HasPrefix(q, << "#" >>)
            THEN LET search_pid == ParseU32(AfterPrefix(q, << "#" >>))
                 IN  IF search_pid # -1 THEN r.pid = search_pid ELSE fallback
        ELSE IF HasPrefix(q, << ">" >>)
            THEN LET rq == AfterPrefix(q, << ">" >>)
                     gb == IF HasSuffix(rq, << "g", "b" >>)
                               THEN << "g", "b" >> ELSE << "G", "B" >>
                     mb == IF HasSuffix(rq, << "m", "b" >>)
                               THEN << "m", "b" >> ELSE << "M", "B" >>
                 IN  IF HasSuffix(rq, << "%" >>)
                         THEN LET t == ParseF32(BeforeSuffix(rq, << "%" >>))
                              IN  IF t.k # "err"
                                      THEN FGt(r.cpu_usage, t)
                                      ELSE fallback
                     ELSE IF HasSuffix(rq, gb)
                         THEN LET t == ParseF32(BeforeSuffix(rq, gb))
                              IN  IF t.k # "err"
                                      THEN RatioGt(AsF32(r.memory), GiB, t)
                                      ELSE fallback
                     ELSE IF HasSuffix(rq, mb)
                         THEN LET t == ParseF32(BeforeSuffix(rq, mb))
                              IN  IF t.k # "err"
                                      THEN RatioGt(AsF32(r.memory), MiB, t)
                                      ELSE fallback
                     ELSE fallback
        ELSE fallback

\* Whether an optional name holds the (lower-cased) query.
NameContains(opt, q) == opt.some /\ Contains(ToLowercase(opt.v), q)

\* PortInfo::matches_search after the port patterns: process name, service
\* name, then the decimal form of the port.
PortFallback(r, q) ==
    \/ NameContains(r.process_name, q)
    \/ NameContains(r.service_name, q)
    \/ Contains(NumToString(r.port), q)

\* str::split_once('-'): the text before and after the first '-'.
FirstDash(s) == CHOOSE k \in 1..Len(s) : s[k] = "-" /\ \A j \in 1..(k - 1) : s[j] # "-"

\* Mutant: the range excludes its upper bound.
PortInRange_ExclusiveEnd(p, a, b) == p >= a /\ p < b
\* self.port >= start_port && self.port <= end_port
PortInRange(p, a, b) == p >= a /\ p <= b

\* PortInfo::matches_search
MatchesSearchPort(r, q0) ==
    LET q == ToLowercase(q0)
        fallback == PortFallback(r, q)
    IN  IF HasPrefix(q, << ":" >>)
            THEN LET pq == AfterPrefix(q, << ":" >>)
                 IN  IF Contains(pq, << "-" >>)
                         THEN LET d == FirstDash(pq)
                                  start_port == ParseU16(SubSeq(pq, 1, d - 1))
                                  end_port == ParseU16(SubSeq(pq, d + 1, Len(pq)))
                              IN  IF start_port # -1 /\ end_port # -1
                                      THEN PortInRange(r.port, start_port, end_port)
                                      ELSE fallback
                         ELSE LET search_port == ParseU16(pq)
                              IN  IF search_port # -1
                                      THEN r.port = search_port
                                      ELSE fallback
        ELSE fallback

\* ConnectionInfo::matches_search
MatchesSearchConnection(r, q0) ==
    LET q == ToLowercase(q0)
    IN  \/ Contains(AddrToString(r.local_address), q)
        \/ Contains(AddrToString(r.remote_address), q)
        \/ NameContains(r.process_name, q)
        \/ r.pid.some /\ Contains(NumToString(r.pid.v), q)

\* matches_search of the record's own kind.
MatchesSearch(r, q) ==
    CASE r.kind = "process" -> MatchesSearchProcess(r, q)
      [] r.kind = "port" -> MatchesSearchPort(r, q)
      [] r.kind = "connection" -> MatchesSearchConnection(r, q)

\* ------------------------------------------------------- searched inventory
\* Names of the environment: plain, with capitals and a digit, and one that
\* holds the pattern characters themselves.
Names ==
    { << "n", "o", "d", "e" >>, << "N", "g", "2" >>,
      << "#", "a", ">", "b", ":", "c" >> }
\* Numeric identifiers: the small ones and one of two digits.
SearchPids == Pids \cup {12}
SearchPorts == Ports \cup {13}
\* A record's correlated pid and process name are both known or both unknown.
Owners ==
    { << None, None >> }
        \cup { << Some(p), Some(n) >> : p \in Pids, n \in Names \ {<< "N", "g", "2" >>} }

ProcessRecords ==
    { ProcessInfo(p, n, c, m) :
        p \in SearchPids, n \in Names, c \in {Num(0), Num(25)},
        m \in {512 * MiB, GiB + 1, GiB + GiB \div 2} }
PortRecords ==
    { PortInfo(po, o[1], o[2], sn) :
        po \in SearchPorts, o \in Owners,
        sn \in {None, Some(<< "H", "T", "T", "P" >>)} }
ConnectionRecords ==
    { ConnectionInfo(SocketAddr(Ip(10, 0, 0, 1), po),
                     SocketAddr(Ip(9, 0, 0, 2), 2), o[1], o[2]) :
        po \in {1, 13}, o \in Owners }

\* The queries: text, numbers in decimal, and each prefix followed by a
\* number, by a range, by a threshold with its unit, or by something else.
QueryNums == SearchPids \cup SearchPorts \cup {70000}
NumberTexts == { NumToString(n) : n \in QueryNums }
OtherTexts ==
    { << >>, << "a" >>, << "c" >>, << "1", "x" >>, << "-", "1" >>, << "+", "1" >> }
PlainQueries ==
    { << "n", "o" >>, << "N", "O" >>, << "g", "2" >>, << "z" >>,
      << "h", "t", "t", "p" >>, << "0", "." >>, << >> }
RangeQueries ==
    { << ":" >> \o a \o << "-" >> \o b :
        a, b \in { NumToString(n) : n \in SearchPorts } \cup { << >>, << "a" >> } }
        \cup { << ":", "1", "-", "2", "-", "3" >> }
Thresholds ==
    { << "0" >>, << "2", "5" >>, << "5", "1", "1" >>, << "5", "1", "2" >>,
      << "1" >>, << "1", "0", "2", "4" >>, << "n", "a", "n" >>,
      << "-", "i", "n", "f" >>, << "b" >>, << >> }
Units == { << "%" >>, << "m", "b" >>, << "M", "B" >>, << "G", "B" >>, << >> }
Queries ==
    PlainQueries \cup NumberTexts
        \cup { << "#" >> \o s : s \in NumberTexts \cup OtherTexts }
        \cup { << ":" >> \o s : s \in NumberTexts \cup OtherTexts }
        \cup RangeQueries
        \cup { << ">" >> \o t \o u : t \in Thresholds, u \in Units }

\* ------------------------------------------- one call of matches_search
SearchIdle ==
    /\ rec = NoRecord
    /\ query = << >>
    /\ searched = FALSE
    /\ matched = FALSE

ProcessMatches ==
    /\ ~searched
    /\ rec.kind = "process"
    /\ matched' = MatchesSearchProcess(rec, query)
    /\ searched' = TRUE
    /\ UNCHANGED << killerVars, appVars, callVars, clockVars, monitorVars,
                    rec, query >>

PortMatches ==
    /\ ~searched
    /\ rec.kind = "port"
    /\ matched' = MatchesSearchPort(rec, query)
    /\ searched' = TRUE
    /\ UNCHANGED << killerVars, appVars, callVars, clockVars, monitorVars,
                    rec, query >>

ConnectionMatches ==
    /\ ~searched
    /\ rec.kind = "connection"
    /\ matched' = MatchesSearchConnection(rec, query)
    /\ searched' = TRUE
    /\ UNCHANGED << killerVars, appVars, callVars, clockVars, monitorVars,
                    rec, query >>

\* ================================================================ dashboard
\* AppState (src/src/tui/app.rs): the inventory snapshot, the filtered lists
\* of the three views, the search, the selection, the sort and the
\* confirmation dialog, driven by handle_key_event and refresh_data.
\* status_message, app_status, loading_state and operation_progress are
\* written for display only and read by no handler; they are not state of
\* the model.

\* --------------------------------------------------------------- orderings
\* Ordering::Less, Equal, Greater as -1, 0, 1.
CmpNum(a, b) == IF a < b THEN -1 ELSE IF a > b THEN 1 ELSE 0

\* The characters of the model in the order of their code points.
CodePoints ==
    << " ", "#", "%", "+", "-", "." >> \o DigitChars \o << ":", ">" >>
        \o UpperChars \o << "[", "]" >> \o LowerChars
CodePoint(c) == CHOOSE k \in DOMAIN CodePoints : CodePoints[k] = c

\* String::cmp: lexicographic by code point, a proper prefix first.
RECURSIVE CmpStr(_, _)
CmpStr(a, b) ==
    IF a = << >> /\ b = << >> THEN 0
    ELSE IF a = << >> THEN -1
    ELSE IF b = << >> THEN 1
    ELSE IF Head(a) # Head(b)
        THEN CmpNum(CodePoint(Head(a)), CodePoint(Head(b)))
    ELSE CmpStr(Tail(a), Tail(b))

\* f32::partial_cmp(..).unwrap_or(Ordering::Equal)
CmpF32(a, b) ==
    IF a.k = "nan" \/ b.k = "nan" THEN 0
    ELSE IF FGt(a, b) THEN 1
    ELSE IF FGt(b, a) THEN -1
    ELSE 0

\* Option<u32>::cmp: None before every Some.
CmpOpt(a, b) ==
    IF ~a.some /\ ~b.some THEN 0
    ELSE IF ~a.some THEN -1
    ELSE IF ~b.some THEN 1
    ELSE CmpNum(a.v, b.v)

\* SocketAddr::cmp of two IPv4 socket addresses: the octets, then the port.
RECURSIVE CmpSeq(_, _)
CmpSeq(a, b) ==
    IF a = << >> /\ b = << >> THEN 0
    ELSE IF a = << >> THEN -1
    ELSE IF b = << >> THEN 1
    ELSE IF Head(a) # Head(b) THEN CmpNum(Head(a), Head(b))
    ELSE CmpSeq(Tail(a), Tail(b))
CmpAddr(a, b) ==
    IF CmpSeq(a.ip, b.ip) # 0 THEN CmpSeq(a.ip, b.ip) ELSE CmpNum(a.port, b.port)

\* if self.sort_order == SortOrder::Ascending { cmp } else { cmp.reverse() }
Directed(cmp, order) == IF order = "Ascending" THEN cmp ELSE 0 - cmp

\* slice::sort_by of a comparator that yields c[j][k] for the elements at
\* positions j and k.  A slice of at most 20 elements is sorted by insertion:
\* each element in turn moves left past the elements it is Less than, and
\* stops at the first it is not Less than.  SortedPrefix(n, c) is the order
\* of the first n positions once they are inserted.
RECURSIVE SortedPrefix(_, _)
SortedPrefix(n, c) ==
    IF n = 0 THEN << >>
    ELSE LET s == SortedPrefix(n - 1, c)
             k == CHOOSE k \in 0..Len(s) :
                      /\ \A j \in (k + 1)..Len(s) : c[n][s[j]] = -1
                      /\ k = 0 \/ c[n][s[k]] # -1
         IN  SubSeq(s, 1, k) \o << n >> \o SubSeq(s, k + 1, Len(s))
StableSort(l, c) ==
    LET order == SortedPrefix(Len(l), c)
    IN  [p \in 1..Len(l) |-> l[order[p]]]

\* The comparators of sort_processes, sort_ports and sort_connections; 2
\* stands for a key the function does not sort by.
ProcessCmp(by, a, b) ==
    CASE by = "Name" -> CmpStr(a.name, b.name)
      [] by = "Pid" -> CmpNum(a.pid, b.pid)
      [] by = "Cpu" -> CmpF32(a.cpu_usage, b.cpu_usage)
      [] by = "Memory" -> CmpNum(a.memory, b.memory)
      [] OTHER -> 2
PortCmp(by, a, b) ==
    IF by = "Port" THEN CmpNum(a.port, b.port) ELSE 2
ConnectionCmp(by, a, b) ==
    CASE by = "LocalAddress" -> CmpAddr(a.local_address, b.local_address)
      [] by = "RemoteAddress" -> CmpAddr(a.remote_address, b.remote_address)
      [] by = "Pid" -> CmpOpt(a.pid, b.pid)
      [] OTHER -> 2

\* sort_processes / sort_ports / sort_connections on a filtered list: sorted
\* by the current key and direction, or left as it is when the key is not
\* one of the list's.
SortProcesses(l, by, order) ==
    IF by \in {"Name", "Pid", "Cpu", "Memory"}
        THEN StableSort(l, [j \in 1..Len(l) |-> [k \in 1..Len(l) |->
                 Directed(ProcessCmp(by, l[j], l[k]), order)]])
        ELSE l
SortPorts(l, by, order) ==
    IF by = "Port"
        THEN StableSort(l, [j \in 1..Len(l) |-> [k \in 1..Len(l) |->
                 Directed(PortCmp(by, l[j], l[k]), order)]])
        ELSE l
SortConnections(l, by, order) ==
    IF by \in {"LocalAddress", "RemoteAddress", "Pid"}
        THEN StableSort(l, [j \in 1..Len(l) |-> [k \in 1..Len(l) |->
                 Directed(ConnectionCmp(by, l[j], l[k]), order)]])
        ELSE l


\* --------------------------------------------------------------- inventory
\* cpu_history: vec![0; 100]
HistoryLen == 100
\* ThemeManager::get_themes().len()
ThemeCount == 10

\* What the system reports at one moment: the process list, the socket
\* listing and the connection listing.  Two moments that differ in every
\* collection and in its size.
InventoryA ==
    [processes |->
        << ProcessInfo(1, << "n", "o", "d", "e" >>, Num(25), 512 * MiB),
           ProcessInfo(200, << "N", "g", "2" >>, Num(0), GiB + 1) >>,
     ports |->
        << PortInfo(13, None, None, None),
           PortInfo(3, Some(200), Some(<< "N", "g", "2" >>), None) >>,
     connections |->
        << ConnectionInfo(SocketAddr(Ip(10, 0, 0, 1), 3),
                          SocketAddr(Ip(9, 0, 0, 2), 1),
                          Some(200), Some(<< "N", "g", "2" >>)) >>]
InventoryB ==
    [processes |->
        << ProcessInfo(300, << "n", "o", "d", "e" >>, Num(50), 0) >>,
     ports |->
        << PortInfo(1, Some(300), Some(<< "n", "o", "d", "e" >>), None) >>,
     connections |->
        << ConnectionInfo(SocketAddr(Ip(10, 0, 0, 1), 1),
                          SocketAddr(Ip(9, 0, 0, 2), 13),
                          Some(300), Some(<< "n", "o", "d", "e" >>)),
           ConnectionInfo(SocketAddr(Ip(9, 0, 0, 2), 2),
                          SocketAddr(Ip(10, 0, 0, 1), 3),
                          None, None) >>]
Inventories == {InventoryA, InventoryB}

\* get_system_cpu_usage() as u64
CpuSamples == {1}

\* The queries a user types, character by character.
TypedQueries == { << >>, << "n" >>, << "n", "o" >>, << "1" >> }
TypedChars == {"n", "o", "1"}

\* No monitor of its own: the state of the specifications without one.
MonitorIdle ==
    /\ last_update = 0
    /\ inventory = << >>
    /\ manager_refreshes = 0

\* AppMode, SortBy, SortOrder
AppModes == {"Dashboard", "ProcessView", "PortView", "ConnectionView", "ThemeSelector"}
ListViews == {"ProcessView", "PortView", "ConnectionView"}

\* Option<ConfirmationDialog>: the action to confirm and its danger level.
NoDialog == [action |-> "None", target |-> 0, pids |-> << >>, danger |-> "None"]
Dialog(a, t, l, d) == [action |-> a, target |-> t, pids |-> l, danger |-> d]

\* AppState::new with the system's inventory inv.
NewAppState(inv) ==
    /\ app_mode = "Dashboard"
    /\ should_quit = FALSE
    /\ search_query = << >>
    /\ search_active = FALSE
    /\ selected_index = 0
    /\ sort_by = "Cpu"
    /\ sort_order = "Descending"
    /\ show_help = FALSE
    /\ confirmation_dialog = NoDialog
    /\ critical_confirmation_buffer = << >>
    /\ processes = inv.processes
    /\ filtered_processes = inv.processes
    /\ ports = inv.ports
    /\ filtered_ports = inv.ports
    /\ connections = inv.connections
    /\ filtered_connections = inv.connections
    /\ selected_items = << >>
    /\ multi_select_mode = FALSE
    /\ cpu_history = [k \in 1..HistoryLen |-> 0]
    /\ refreshes = 0
    /\ lastRefresh = "none"
    /\ now = 0
    /\ last_refresh = now
    /\ auto_refresh = TRUE
    /\ dialog_kills = [calls |-> 0, ok |-> FALSE, fresh |-> FALSE]
    /\ events = 0

\* No dashboard: the application state of the other specifications.
AppIdle ==
    /\ NewAppState([processes |-> << >>, ports |-> << >>,
                    connections |-> << >>])
    /\ MonitorIdle


\* ------------------------------------------------------------------ filters
\* apply_current_sorts: each of the three lists f sorted.
ApplyCurrentSorts(f, by, order) ==
    [processes |-> SortProcesses(f.processes, by, order),
     ports |-> SortPorts(f.ports, by, order),
     connections |-> SortConnections(f.connections, by, order)]

\* reset_filters: the filtered lists are the whole collections, sorted.
ResetFilters(P, O, C, by, order) ==
    ApplyCurrentSorts([processes |-> P, ports |-> O, connections |-> C],
                      by, order)

\* apply_search_filter (and apply_current_filters, which differs from it in
\* nothing): with an empty query reset_filters; otherwise the list of the
\* current view is filtered anew and sorted, the other lists (cur) stay.
ApplySearchFilter(m, q, P, O, C, cur, by, order) ==
    IF q = << >> THEN ResetFilters(P, O, C, by, order)
    ELSE [processes |->
              IF m = "ProcessView"
                  THEN SortProcesses(
                           SelectSeq(P, LAMBDA r : MatchesSearchProcess(r, q)),
                           by, order)
                  ELSE cur.processes,
          ports |->
              IF m = "PortView"
                  THEN SortPorts(
                           SelectSeq(O, LAMBDA r : MatchesSearchPort(r, q)),
                           by, order)
                  ELSE cur.ports,
          connections |->
              IF m = "ConnectionView"
                  THEN SelectSeq(C, LAMBDA r : MatchesSearchConnection(r, q))
                  ELSE cur.connections]

\* Mutant: filtering leaves the selection where it was.
IndexAfterFilter_Kept(m, q, idx) == idx
\* selected_index after apply_search_filter: 0, except that reset_filters
\* keeps it in the theme selector.
IndexAfterFilter(m, q, idx) ==
    IF q = << >> /\ m = "ThemeSelector" THEN idx ELSE 0

\* The filtered lists as one value.
Filtered ==
    [processes |-> filtered_processes, ports |-> filtered_ports,
     connections |-> filtered_connections]
SetFiltered(f) ==
    /\ filtered_processes' = f.processes
    /\ filtered_ports' = f.ports
    /\ filtered_connections' = f.connections

\* Mutant: the newest sample is pushed and no sample is removed.
PushSample_NoEviction(h, s) == Append(h, s)
\* self.cpu_history.remove(0); self.cpu_history.push(system_cpu_usage)
PushSample(h, s) == Append(Tail(h), s)

\* ------------------------------------------------------------ refresh_data
\* self.process_monitor.get_processes(): the processes of the system when
\* the monitor updates, those of its last update otherwise.
MonitoredProcesses(inv, due) == IF due THEN inv.processes ELSE processes

\* refresh_data with the system's inventory inv and CPU sample s.  fail is
\* the acquisition that returns an error: none, get_all_ports ("ports") or
\* get_active_connections ("connections"); get_processes cannot fail.  due
\* is whether the update interval of process_monitor had elapsed at the call:
\* get_processes takes the processes of the system anew then, and answers
\* with the processes its manager holds otherwise.
RefreshData(inv, fail, s, due) ==
    /\ refreshes' = refreshes + 1
    /\ lastRefresh' = IF fail = "none" THEN "ok" ELSE fail
    /\ last_refresh' = IF fail = "none" THEN now ELSE last_refresh
    /\ processes' = MonitoredProcesses(inv, due)
    /\ ports' = IF fail = "ports" THEN ports ELSE inv.ports
    /\ connections' = IF fail = "none" THEN inv.connections ELSE connections
    /\ IF fail = "none"
          THEN /\ cpu_history' = PushSample(cpu_history, s)
               /\ SetFiltered(ApplySearchFilter(app_mode, search_query,
                      MonitoredProcesses(inv, due), inv.ports,
                      inv.connections, Filtered, sort_by, sort_order))
               /\ selected_index' =
                      IndexAfterFilter(app_mode, search_query, selected_index)
          ELSE UNCHANGED << cpu_history, filterVars, selected_index >>

RefreshOutcomes == {"none", "ports", "connections"}

\* The event loop runs until should_quit is set.
Running == ~should_quit
\* One more event handled by the loop.
Event == events < MaxEvents /\ events' = events + 1
InDialog == confirmation_dialog # NoDialog
InSearch == ~InDialog /\ search_active
InTheme == ~InDialog /\ ~search_active /\ app_mode = "ThemeSelector"
Normal == ~InDialog /\ ~search_active /\ app_mode # "ThemeSelector"

\* Mutant: Ctrl+C is looked at after the dialog, which swallows it.
CtrlC_AfterDialog ==
    /\ Running
    /\ Event
    /\ ~InDialog
    /\ should_quit' = TRUE
    /\ UNCHANGED << otherVars, app_mode, searchUi, selected_index, sortVars,
                    show_help, dialogVars, dataVars, filterVars, selectVars >>
\* Ctrl+C
CtrlC ==
    /\ Running
    /\ Event
    /\ should_quit' = TRUE
    /\ UNCHANGED << otherVars, app_mode, searchUi, selected_index, sortVars,
                    show_help, dialogVars, dataVars, filterVars, selectVars >>

\* refresh_data called by Ctrl+R (in every state of the dashboard), by the
\* r key or by a periodic Refresh event whose time has come.
Refresh ==
    /\ Running
    /\ Event
    /\ \E inv \in Inventories, fail \in RefreshOutcomes, s \in CpuSamples,
          due \in BOOLEAN :
        RefreshData(inv, fail, s, due)
    /\ UNCHANGED << otherVars, app_mode, should_quit, searchUi, sortVars,
                    show_help, dialogVars, selectVars >>


\* ------------------------------------------------------ confirmation dialog
\* char::to_ascii_uppercase
ToUpperChar(c) ==
    IF \E k \in DOMAIN LowerChars : LowerChars[k] = c
        THEN UpperChars[CHOOSE k \in DOMAIN LowerChars : LowerChars[k] = c]
        ELSE c
Yes == << "Y", "E", "S" >>
\* The characters typed into a critical dialog.
DialogChars == {"y", "e", "s", "n", "N", "x"}

\* The calls of ProcessKiller that execute_dialog_action makes for a dialog:
\* one for a process or a port, one for each pid of a bulk kill.
KillCalls(dialog) ==
    IF dialog.action = "Processes" THEN Len(dialog.pids) ELSE 1

\* Whether execute_dialog_action calls refresh_data: after a bulk kill
\* always, after a single kill when it returned Ok.
RefreshFollows(dialog, killed) == dialog.action = "Processes" \/ killed

\* execute_dialog_action: the dialog is taken; a single kill that returned
\* Ok, and every bulk kill, is followed by refresh_data.  killed is whether
\* the single kill returned Ok (whether any kill did, of a bulk kill).
ExecuteDialogAction(killed, inv, fail, s, due) ==
    /\ confirmation_dialog' = NoDialog
    /\ dialog_kills' =
           [calls |-> dialog_kills.calls + KillCalls(confirmation_dialog),
            ok |-> killed /\ KillCalls(confirmation_dialog) > 0,
            fresh |-> due /\ RefreshFollows(confirmation_dialog, killed)]
    /\ IF confirmation_dialog.action = "Processes"
          THEN /\ multi_select_mode' = FALSE
               /\ selected_items' = << >>
          ELSE UNCHANGED selectVars
    /\ IF RefreshFollows(confirmation_dialog, killed)
          THEN RefreshData(inv, fail, s, due)
          ELSE UNCHANGED << dataVars, filterVars, selected_index >>

\* Mutant: y, Y or Enter confirms a critical dialog too.
DialogConfirm_AnyDanger ==
    /\ Running
    /\ Event
    /\ InDialog
    /\ \E killed \in BOOLEAN, inv \in Inventories, fail \in RefreshOutcomes,
          s \in CpuSamples, due \in BOOLEAN :
        ExecuteDialogAction(killed, inv, fail, s, due)
    /\ UNCHANGED << outerVars, app_mode, should_quit, searchUi, sortVars,
                    show_help, critical_confirmation_buffer >>
\* y, Y or Enter in a dialog that is not critical.
DialogConfirm ==
    /\ Running
    /\ Event
    /\ InDialog
    /\ confirmation_dialog.danger # "Critical"
    /\ \E killed \in BOOLEAN, inv \in Inventories, fail \in RefreshOutcomes,
          s \in CpuSamples, due \in BOOLEAN :
        ExecuteDialogAction(killed, inv, fail, s, due)
    /\ UNCHANGED << outerVars, app_mode, should_quit, searchUi, sortVars,
                    show_help, critical_confirmation_buffer >>

\* n, N or Esc in a dialog that is not critical.
DialogCancel ==
    /\ Running
    /\ Event
    /\ InDialog
    /\ confirmation_dialog.danger # "Critical"
    /\ confirmation_dialog' = NoDialog
    /\ UNCHANGED << otherVars, app_mode, should_quit, searchUi, selected_index,
                    sortVars, show_help, critical_confirmation_buffer,
                    dataVars, filterVars, selectVars >>

\* A character typed into a critical dialog: n or N closes it; any other is
\* pushed in upper case, and the buffer reading YES executes the action; a
\* buffer that is no beginning of YES is cleared.
CriticalType ==
    /\ Running
    /\ Event
    /\ InDialog
    /\ confirmation_dialog.danger = "Critical"
    /\ \E c \in DialogChars :
        LET typed == Append(critical_confirmation_buffer, ToUpperChar(c))
        IN  IF c \in {"n", "N"}
                THEN /\ confirmation_dialog' = NoDialog
                     /\ critical_confirmation_buffer' = << >>
                     /\ UNCHANGED << dataVars, filterVars, selected_index,
                                     selectVars, dialog_kills >>
            ELSE IF typed = Yes
                THEN /\ critical_confirmation_buffer' = << >>
                     /\ \E killed \in BOOLEAN, inv \in Inventories,
                           fail \in RefreshOutcomes, s \in CpuSamples,
                           due \in BOOLEAN :
                         ExecuteDialogAction(killed, inv, fail, s, due)
            ELSE /\ critical_confirmation_buffer' =
                        IF HasPrefix(Yes, typed) THEN typed ELSE << >>
                 /\ UNCHANGED << confirmation_dialog, dataVars, filterVars,
                                 selected_index, selectVars, dialog_kills >>
    /\ UNCHANGED << outerVars, app_mode, should_quit, searchUi, sortVars,
                    show_help >>

\* Backspace in a critical dialog: critical_confirmation_buffer.pop().
CriticalBackspace ==
    /\ Running
    /\ Event
    /\ InDialog
    /\ confirmation_dialog.danger = "Critical"
    /\ critical_confirmation_buffer' =
           IF critical_confirmation_buffer = << >> THEN << >>
           ELSE SubSeq(critical_confirmation_buffer, 1,
                       Len(critical_confirmation_buffer) - 1)
    /\ UNCHANGED << otherVars, app_mode, should_quit, searchUi, selected_index,
                    sortVars, show_help, confirmation_dialog, dataVars,
                    filterVars, selectVars >>

\* Esc in a critical dialog.
CriticalEsc ==
    /\ Running
    /\ Event
    /\ InDialog
    /\ confirmation_dialog.danger = "Critical"
    /\ confirmation_dialog' = NoDialog
    /\ critical_confirmation_buffer' = << >>
    /\ UNCHANGED << otherVars, app_mode, should_quit, searchUi, selected_index,
                    sortVars, show_help, dataVars, filterVars, selectVars >>

\* ------------------------------------------------------------- search mode
\* Enter: apply_search_filter, then search mode is left.
SearchEnter ==
    /\ Running
    /\ Event
    /\ InSearch
    /\ SetFiltered(ApplySearchFilter(app_mode, search_query, processes, ports,
           connections, Filtered, sort_by, sort_order))
    /\ selected_index' = IndexAfterFilter(app_mode, search_query, selected_index)
    /\ search_active' = FALSE
    /\ UNCHANGED << otherVars, app_mode, should_quit, search_query, sortVars,
                    show_help, dialogVars, dataVars, selectVars >>

\* Mutant: Esc clears the query and leaves the filtered lists as they are.
SearchEsc_KeepsFilter ==
    /\ Running
    /\ Event
    /\ InSearch
    /\ search_active' = FALSE
    /\ search_query' = << >>
    /\ UNCHANGED << otherVars, app_mode, should_quit, sortVars, show_help,
                    dialogVars, dataVars, selectVars, filterVars,
                    selected_index >>
\* Esc: search mode is left, the query cleared, reset_filters.
SearchEsc ==
    /\ Running
    /\ Event
    /\ InSearch
    /\ search_active' = FALSE
    /\ search_query' = << >>
    /\ SetFiltered(ResetFilters(processes, ports, connections, sort_by, sort_order))
    /\ selected_index' = IndexAfterFilter(app_mode, << >>, selected_index)
    /\ UNCHANGED << otherVars, app_mode, should_quit, sortVars, show_help,
                    dialogVars, dataVars, selectVars >>

\* Backspace: search_query.pop(), apply_search_filter.
SearchBackspace ==
    /\ Running
    /\ Event
    /\ InSearch
    /\ LET q == IF search_query = << >> THEN << >>
                ELSE SubSeq(search_query, 1, Len(search_query) - 1)
       IN  /\ search_query' = q
           /\ SetFiltered(ApplySearchFilter(app_mode, q, processes, ports,
                  connections, Filtered, sort_by, sort_order))
           /\ selected_index' = IndexAfterFilter(app_mode, q, selected_index)
    /\ UNCHANGED << otherVars, app_mode, should_quit, search_active, sortVars,
                    show_help, dialogVars, dataVars, selectVars >>

\* A character: search_query.push(c), apply_search_filter.
SearchChar ==
    /\ Running
    /\ Event
    /\ InSearch
    /\ \E c \in TypedChars :
        LET q == Append(search_query, c)
        IN  /\ q \in TypedQueries
            /\ search_query' = q
            /\ SetFiltered(ApplySearchFilter(app_mode, q, processes, ports,
                   connections, Filtered, sort_by, sort_order))
            /\ selected_index' = IndexAfterFilter(app_mode, q, selected_index)
    /\ UNCHANGED << otherVars, app_mode, should_quit, search_active, sortVars,
                    show_help, dialogVars, dataVars, selectVars >>

\* ---------------------------------------------------------- theme selector
\* Up or k: selected_index.saturating_sub(1).
ThemeUp ==
    /\ Running
    /\ Event
    /\ InTheme
    /\ selected_index' = IF selected_index > 0 THEN selected_index - 1 ELSE 0
    /\ UNCHANGED << otherVars, app_mode, should_quit, searchUi, sortVars,
                    show_help, dialogVars, dataVars, filterVars, selectVars >>

\* Down or j.
ThemeDown ==
    /\ Running
    /\ Event
    /\ InTheme
    /\ selected_index' =
           IF selected_index < ThemeCount - 1 THEN selected_index + 1
           ELSE selected_index
    /\ UNCHANGED << otherVars, app_mode, should_quit, searchUi, sortVars,
                    show_help, dialogVars, dataVars, filterVars, selectVars >>

\* Enter (the theme is chosen and saved) and Esc or q: back to the dashboard.
ThemeEnter ==
    /\ Running
    /\ Event
    /\ InTheme
    /\ app_mode' = "Dashboard"
    /\ UNCHANGED << otherVars, should_quit, searchUi, selected_index, sortVars,
                    show_help, dialogVars, dataVars, filterVars, selectVars >>
ThemeLeave ==
    /\ Running
    /\ Event
    /\ InTheme
    /\ app_mode' = "Dashboard"
    /\ UNCHANGED << otherVars, should_quit, searchUi, selected_index, sortVars,
                    show_help, dialogVars, dataVars, filterVars, selectVars >>

\* ------------------------------------------------------------- normal keys
\* The filtered list of a view, by its length: len().saturating_sub(1).
LastIndex(l) == IF Len(l) = 0 THEN 0 ELSE Len(l) - 1
PageSize == 10

\* Up or k: move_up.
MoveUp ==
    /\ Running
    /\ Event
    /\ Normal
    /\ selected_index' = IF selected_index > 0 THEN selected_index - 1 ELSE 0
    /\ UNCHANGED << otherVars, app_mode, should_quit, searchUi, sortVars,
                    show_help, dialogVars, dataVars, filterVars, selectVars >>

\* Down or j: move_down.
MoveDown ==
    /\ Running
    /\ Event
    /\ Normal
    /\ LET max_index ==
               CASE app_mode = "ProcessView" -> LastIndex(filtered_processes)
                 [] app_mode = "PortView" -> LastIndex(filtered_ports)
                 [] app_mode = "ConnectionView" -> LastIndex(filtered_connections)
                 [] OTHER -> 0
       IN  selected_index' =
               IF selected_index < max_index THEN selected_index + 1
               ELSE selected_index
    /\ UNCHANGED << otherVars, app_mode, should_quit, searchUi, sortVars,
                    show_help, dialogVars, dataVars, filterVars, selectVars >>

\* PageUp or u: page_up.
PageUp ==
    /\ Running
    /\ Event
    /\ Normal
    /\ selected_index' =
           IF selected_index >= PageSize THEN selected_index - PageSize ELSE 0
    /\ UNCHANGED << otherVars, app_mode, should_quit, searchUi, sortVars,
                    show_help, dialogVars, dataVars, filterVars, selectVars >>

\* PageDown or d: page_down; the connection view has no maximum of its own.
PageDown ==
    /\ Running
    /\ Event
    /\ Normal
    /\ LET max_index ==
               CASE app_mode = "ProcessView" -> LastIndex(filtered_processes)
                 [] app_mode = "PortView" -> LastIndex(filtered_ports)
                 [] OTHER -> 0
       IN  selected_index' =
               IF selected_index + PageSize < max_index
                   THEN selected_index + PageSize
                   ELSE max_index
    /\ UNCHANGED << otherVars, app_mode, should_quit, searchUi, sortVars,
                    show_help, dialogVars, dataVars, filterVars, selectVars >>

\* Home or g: go_to_top.
GoToTop ==
    /\ Running
    /\ Event
    /\ Normal
    /\ selected_index' = 0
    /\ UNCHANGED << otherVars, app_mode, should_quit, searchUi, sortVars,
                    show_help, dialogVars, dataVars, filterVars, selectVars >>

\* End or G: go_to_bottom.
GoToBottom ==
    /\ Running
    /\ Event
    /\ Normal
    /\ selected_index' =
           CASE app_mode = "ProcessView" -> LastIndex(filtered_processes)
             [] app_mode = "PortView" -> LastIndex(filtered_ports)
             [] OTHER -> 0
    /\ UNCHANGED << otherVars, app_mode, should_quit, searchUi, sortVars,
                    show_help, dialogVars, dataVars, filterVars, selectVars >>

\* 1..5 and F1..F3: switch_to_mode.  An active search is cleared unless the
\* theme selector is entered; the query of a finished search stays.
SwitchToMode ==
    /\ Running
    /\ Event
    /\ Normal
    /\ \E m \in AppModes :
        /\ IF m # "ThemeSelector" /\ search_active
              THEN /\ search_active' = FALSE
                   /\ search_query' = << >>
                   /\ SetFiltered(ResetFilters(processes, ports, connections,
                                               sort_by, sort_order))
              ELSE UNCHANGED << searchUi, filterVars >>
        /\ app_mode' = m
    /\ selected_index' = 0
    /\ selected_items' = << >>
    /\ multi_select_mode' = FALSE
    /\ show_help' = FALSE
    /\ UNCHANGED << otherVars, should_quit, sortVars, dialogVars, dataVars >>

\* F4, ? or h: toggle_help.
ToggleHelp ==
    /\ Running
    /\ Event
    /\ Normal
    /\ show_help' = ~show_help
    /\ UNCHANGED << otherVars, app_mode, should_quit, searchUi, selected_index,
                    sortVars, dialogVars, dataVars, filterVars, selectVars >>

\* /: enter_search_mode.
EnterSearchMode ==
    /\ Running
    /\ Event
    /\ Normal
    /\ search_active' = TRUE
    /\ search_query' = << >>
    /\ UNCHANGED << otherVars, app_mode, should_quit, selected_index, sortVars,
                    show_help, dialogVars, dataVars, filterVars, selectVars >>

\* Vec::contains and Vec::retain(|x| x != v)
InSeq(l, v) == \E k \in DOMAIN l : l[k] = v
Without(l, v) == SelectSeq(l, LAMBDA x : x # v)

\* Mutant: the row is pushed whether it is marked or not.
Toggled_AlwaysPushed(items, multi, row) ==
    Append(IF multi THEN items ELSE << >>, row)
\* selected_items after toggle_selection on the row: cleared first when
\* multi_select_mode is off, then the row removed if it is there and pushed
\* if it is not.
Toggled(items, multi, row) ==
    IF InSeq(IF multi THEN items ELSE << >>, row)
        THEN Without(IF multi THEN items ELSE << >>, row)
        ELSE Append(IF multi THEN items ELSE << >>, row)

\* Space: toggle_selection.
ToggleSelection ==
    /\ Running
    /\ Event
    /\ Normal
    /\ selected_items' =
           Toggled(selected_items, multi_select_mode, selected_index)
    /\ multi_select_mode' =
           (Toggled(selected_items, multi_select_mode, selected_index)
                # << >>)
    /\ UNCHANGED << otherVars, app_mode, should_quit, searchUi, selected_index,
                    sortVars, show_help, dialogVars, dataVars, filterVars >>

\* PortInfo::is_development_port
IsDevelopmentPort(po) ==
    \/ po \in {3000, 3001, 3002, 5000, 5001, 5002, 8000, 8080, 8888, 4200,
                 5432, 3306, 6379, 27017, 9200, 9300, 5672, 1433}
    \/ po \in 8081..8090
    \/ po \in 9000..9010

\* show_kill_process_dialog: the danger level from the process of that pid
\* in processes, or from the defaults when there is none.
KillProcessDialog(p) ==
    LET found == \E k \in DOMAIN processes : processes[k].pid = p
        info == processes[CHOOSE k \in DOMAIN processes :
                    /\ processes[k].pid = p
                    /\ \A j \in 1..(k - 1) : processes[j].pid # p]
        process_name == IF found THEN info.name
                        ELSE << "P", "I", "D", " " >> \o NumToString(p)
        cpu_usage == IF found THEN info.cpu_usage ELSE Num(0)
        memory == IF found THEN info.memory ELSE 0
    IN  Dialog("Process", p, << >>,
            IF \/ Contains(process_name, << "s", "y", "s", "t", "e", "m" >>)
               \/ Contains(process_name, << "k", "e", "r", "n", "e", "l" >>)
               \/ p < 100
                THEN "Critical"
            ELSE IF FGt(cpu_usage, Num(50)) \/ memory > GiB THEN "High"
            ELSE "Medium")

\* show_kill_port_dialog
KillPortDialog(po) ==
    LET found == \E k \in DOMAIN ports : ports[k].port = po
    IN  Dialog("Port", po, << >>,
            IF po < 1024 THEN "High"
            ELSE IF found /\ IsDevelopmentPort(po) THEN "Low"
            ELSE "Medium")

\* show_kill_multiple_dialog: the pids of the selected rows of the process
\* view (none in another view), the danger level from the count of rows.
KillMultipleDialog ==
    LET count == Len(selected_items)
        rows == SelectSeq(selected_items, LAMBDA x :
                    app_mode = "ProcessView" /\ x < Len(filtered_processes))
    IN  Dialog("Processes", 0,
            [k \in 1..Len(rows) |-> filtered_processes[rows[k] + 1].pid],
            IF count > 10 THEN "Critical"
            ELSE IF count > 5 THEN "High"
            ELSE "Medium")

\* The dialog for the selected row of the current view, if there is one.
SingleDialog ==
    IF app_mode = "ProcessView" /\ selected_index < Len(filtered_processes)
        THEN KillProcessDialog(filtered_processes[selected_index + 1].pid)
    ELSE IF app_mode = "PortView" /\ selected_index < Len(filtered_ports)
        THEN KillPortDialog(filtered_ports[selected_index + 1].port)
    ELSE confirmation_dialog

\* Enter: primary_action.
PrimaryAction ==
    /\ Running
    /\ Event
    /\ Normal
    /\ confirmation_dialog' = SingleDialog
    /\ UNCHANGED << otherVars, app_mode, should_quit, searchUi, selected_index,
                    sortVars, show_help, critical_confirmation_buffer,
                    dataVars, filterVars, selectVars >>

\* Delete or x: kill_action.
KillAction ==
    /\ Running
    /\ Event
    /\ Normal
    /\ confirmation_dialog' =
           IF multi_select_mode /\ selected_items # << >>
               THEN KillMultipleDialog
               ELSE SingleDialog
    /\ UNCHANGED << otherVars, app_mode, should_quit, searchUi, selected_index,
                    sortVars, show_help, critical_confirmation_buffer,
                    dataVars, filterVars, selectVars >>

\* The sort key and direction after cycle_sort in the view m.
NextSortBy(m, by) ==
    CASE m = "ProcessView" ->
             (CASE by = "Name" -> "Pid"
                [] by = "Pid" -> "Cpu"
                [] by = "Cpu" -> "Memory"
                [] by = "Memory" -> "Name"
                [] OTHER -> "Name")
      [] m = "PortView" -> "Port"
      [] m = "ConnectionView" ->
             (CASE by = "LocalAddress" -> "RemoteAddress"
                [] by = "RemoteAddress" -> "Pid"
                [] OTHER -> "LocalAddress")
      [] OTHER -> by
NextSortOrder(m, order) ==
    IF m = "PortView"
        THEN (IF order = "Ascending" THEN "Descending" ELSE "Ascending")
        ELSE order

\* s: cycle_sort, then apply_current_sorts on the three filtered lists.
CycleSort ==
    /\ Running
    /\ Event
    /\ Normal
    /\ sort_by' = NextSortBy(app_mode, sort_by)
    /\ sort_order' = NextSortOrder(app_mode, sort_order)
    /\ SetFiltered(ApplyCurrentSorts(Filtered, NextSortBy(app_mode, sort_by),
                                     NextSortOrder(app_mode, sort_order)))
    /\ UNCHANGED << otherVars, app_mode, should_quit, searchUi, selected_index,
                    show_help, dialogVars, dataVars, selectVars >>

\* c: clear_selection.
ClearSelection ==
    /\ Running
    /\ Event
    /\ Normal
    /\ selected_items' = << >>
    /\ multi_select_mode' = FALSE
    /\ UNCHANGED << otherVars, app_mode, should_quit, searchUi, selected_index,
                    sortVars, show_help, dialogVars, dataVars, filterVars >>

\* Esc: handle_escape.
HandleEscape ==
    /\ Running
    /\ Event
    /\ Normal
    /\ IF search_active
          THEN /\ search_active' = FALSE
               /\ search_query' = << >>
               /\ SetFiltered(ResetFilters(processes, ports, connections,
                                           sort_by, sort_order))
               /\ selected_index' = IndexAfterFilter(app_mode, << >>, selected_index)
               /\ UNCHANGED << selectVars, show_help, should_quit >>
       ELSE IF multi_select_mode
          THEN /\ selected_items' = << >>
               /\ multi_select_mode' = FALSE
               /\ UNCHANGED << searchUi, filterVars, selected_index, show_help,
                               should_quit >>
       ELSE IF show_help
          THEN /\ show_help' = FALSE
               /\ UNCHANGED << searchUi, filterVars, selected_index, selectVars,
                               should_quit >>
       ELSE /\ should_quit' = TRUE
            /\ UNCHANGED << searchUi, filterVars, selected_index, selectVars,
                            show_help >>
    /\ UNCHANGED << otherVars, app_mode, sortVars, dialogVars, dataVars >>

\* q: the help is closed, or the application quits.
QuitKey ==
    /\ Running
    /\ Event
    /\ Normal
    /\ IF show_help
          THEN show_help' = FALSE /\ UNCHANGED should_quit
          ELSE should_quit' = TRUE /\ UNCHANGED show_help
    /\ UNCHANGED << otherVars, app_mode, searchUi, selected_index, sortVars,
                    dialogVars, dataVars, filterVars, selectVars >>

\* =========================================================== format_memory
\* No call in progress: the state of the other specifications.
CallIdle ==
    /\ input = 0
    /\ output = 0
    /\ returned = "none"

\* Bytes in a KB: the divisor of format_memory.
Kibi == 1024

\* Mutant: the MB branch is taken from one KB on.
FormatMemory_MbFromKib(memory) ==
    LET kb == memory \div Kibi
        mb == kb \div Kibi
        gb == mb \div Kibi
    IN  IF gb > 0 THEN NumToString(gb) \o << ".", "0", "G", "B" >>
        ELSE IF kb > 0 THEN NumToString(mb) \o << "M", "B" >>
        ELSE NumToString(kb) \o << "K", "B" >>
\* ProcessInfo::format_memory: whole GB with one decimal ({:.1} of a whole
\* number), else whole MB, else whole KB.
FormatMemory(memory) ==
    LET kb == memory \div Kibi
        mb == kb \div Kibi
        gb == mb \div Kibi
    IN  IF gb > 0 THEN NumToString(gb) \o << ".", "0", "G", "B" >>
        ELSE IF mb > 0 THEN NumToString(mb) \o << "M", "B" >>
        ELSE NumToString(kb) \o << "K", "B" >>

\* Byte counts around every multiple of a unit that matters.
MemorySamples ==
    ({ u * k + d : u \in {1, Kibi, MiB}, k \in (0..8) \cup (1020..1025),
                   d \in {-1, 0, 1} } \ {-1})
        \cup {GiB + GiB \div 2, 2147483647}

\* format_memory called on a process with the byte count input.
CallFormatMemory ==
    /\ returned = "none"
    /\ output' = FormatMemory(input)
    /\ returned' = "format_memory"
    /\ UNCHANGED << calleeVars, input >>

\* ======================================================== sorting by CPU
\* What a call that may panic returns.
Returns(l) == [panicked |-> FALSE, list |-> l]
Panics == [panicked |-> TRUE, list |-> << >>]

\* Vec::truncate(limit)
Truncate(l, limit) == SubSeq(l, 1, IF limit < Len(l) THEN limit ELSE Len(l))

\* ProcessMonitor::get_top_cpu_processes on the process list l: sort_by
\* with b.cpu_usage.partial_cmp(&a.cpu_usage).unwrap(), then truncate.  A
\* list of two or more has each element compared at least once, and a
\* comparison with NaN is None, on which unwrap panics.
GetTopCpuProcesses(l, limit) ==
    IF Len(l) >= 2 /\ \E k \in DOMAIN l : l[k].cpu_usage.k = "nan"
        THEN Panics
        ELSE Returns(Truncate(
                 StableSort(l, [j \in 1..Len(l) |-> [k \in 1..Len(l) |->
                     CmpF32(l[k].cpu_usage, l[j].cpu_usage)]]),
                 limit))

\* Process lists of up to MaxListLen records, the CPU of each a number or NaN.
CpuValues == {Num(0), Num(25), NaN}
CpuLists ==
    UNION { { [k \in 1..n |-> ProcessInfo(k, << "n", "o", "d", "e" >>, f[k], 0)] :
                f \in [1..n -> CpuValues] } : n \in 0..MaxListLen }

\* sort_processes with the key Cpu on the list of the input.
CallSortProcesses ==
    /\ returned = "none"
    /\ output' = Returns(SortProcesses(input.list, "Cpu", input.order))
    /\ returned' = "sort_processes"
    /\ UNCHANGED << calleeVars, input >>

\* get_top_cpu_processes on the list of the input.
CallGetTopCpuProcesses ==
    /\ returned = "none"
    /\ output' = GetTopCpuProcesses(input.list, input.limit)
    /\ returned' = "get_top_cpu_processes"
    /\ UNCHANGED << calleeVars, input >>

\* ======================================================= socket listing
\* str::to_uppercase, character by character.
ToUppercase(s) == [k \in 1..Len(s) |-> ToUpperChar(s[k])]

\* ConnectionState::from(&str)
ConnectionStateFrom(s) ==
    LET u == ToUppercase(s)
    IN  CASE u = << "L", "I", "S", "T", "E", "N" >> -> "Listen"
          [] u = << "E", "S", "T", "A", "B", "L", "I", "S", "H", "E",
                "D" >> -> "Established"
          [] u = << "T", "I", "M", "E", "_", "W", "A", "I",
                "T" >> -> "TimeWait"
          [] u = << "C", "L", "O", "S", "E", "_", "W", "A", "I",
                "T" >> -> "CloseWait"
          [] u = << "F", "I", "N", "_", "W", "A", "I", "T",
                "1" >> -> "FinWait1"
          [] u = << "F", "I", "N", "_", "W", "A", "I", "T",
                "2" >> -> "FinWait2"
          [] u = << "S", "Y", "N", "_", "S", "E", "N", "T" >> -> "SynSent"
          [] u = << "S", "Y", "N", "_", "R", "C", "V", "D" >> -> "SynReceived"
          [] u = << "C", "L", "O", "S", "E", "D" >> -> "Closed"
          [] OTHER -> "Unknown"

\* A PortInfo as the socket listing builds it.
ListedPort(po, proto, p, pn, la, ra, st) ==
    [kind |-> "port", port |-> po, protocol |-> proto, pid |-> p,
     process_name |-> pn, local_address |-> la, remote_address |-> ra,
     state |-> st, service_name |-> None]

\* The n-th smallest element of a set of numbers.
Nth(S, n) == CHOOSE k \in S : Cardinality({ j \in S : j < k }) = n - 1

\* str::split_whitespace: the maximal runs of non-space characters, each
\* from a position that follows a space (or starts the string) to the
\* position before the next space (or the end).
SplitWhitespace(s) ==
    LET starts == { k \in 1..Len(s) :
                      ~IsSpace(s[k]) /\ (k = 1 \/ IsSpace(s[k - 1])) }
        ends == { k \in 1..Len(s) :
                    ~IsSpace(s[k]) /\ (k = Len(s) \/ IsSpace(s[k + 1])) }
    IN  [n \in 1..Cardinality(starts) |->
            SubSeq(s, Nth(starts, n), Nth(ends, n))]

\* str::split on a set of separator characters: the parts between them.
SplitBy(s, seps) ==
    LET cuts == { k \in 1..Len(s) : s[k] \in seps }
        count == Cardinality(cuts)
    IN  [n \in 1..(count + 1) |->
            SubSeq(s, IF n = 1 THEN 1 ELSE Nth(cuts, n - 1) + 1,
                      IF n = count + 1 THEN Len(s) ELSE Nth(cuts, n) - 1)]

\* str::rfind(c): the last position of the character, 0 when there is none.
RFind(s, c) ==
    IF \E k \in 1..Len(s) : s[k] = c
        THEN CHOOSE k \in 1..Len(s) :
                 s[k] = c /\ \A j \in (k + 1)..Len(s) : s[j] # c
        ELSE 0

\* One octet of the standard library's IPv4 parser: one to three digits, no
\* leading zero, at most 255; -1 is the parse error.
ParseOctet(s) ==
    IF /\ Len(s) \in 1..3
       /\ \A k \in 1..Len(s) : IsDigit(s[k])
       /\ (Len(s) = 1 \/ s[1] # "0")
       /\ DecimalValue(s) <= 255
        THEN DecimalValue(s)
        ELSE -1

\* The address of four octet texts, None when one of them is no octet.
IpOfOctets(parts) ==
    IF Len(parts) = 4 /\ \A k \in 1..4 : ParseOctet(parts[k]) # -1
        THEN Some([k \in 1..4 |-> ParseOctet(parts[k])])
        ELSE None
\* str::parse::<IpAddr> on the addresses of an IPv4 listing: four octets
\* between dots.
ParseIpAddr(s) == IpOfOctets(SplitBy(s, {"."}))

\* The port of the standard library's socket address parser: digits only,
\* at most u16::MAX; -1 is the parse error.
ParseAddrPort(s) ==
    IF s # << >> /\ (\A k \in 1..Len(s) : IsDigit(s[k]))
       /\ DecimalValue(s) <= U16Max
        THEN DecimalValue(s)
        ELSE -1

\* The socket address of a parsed ip and a parsed port, None when one of
\* the two did not parse.
SocketAddrOf(ip, po) ==
    IF ip.some /\ po # -1 THEN Some(SocketAddr(ip.v, po)) ELSE None
\* Option::or
OrElse(a, b) == IF a.some THEN a ELSE b

\* str::parse::<SocketAddr> on the addresses of an IPv4 listing: ip:port
\* (without a colon the ip part is empty and does not parse).
ParseStdSocketAddr(s) ==
    SocketAddrOf(ParseIpAddr(SubSeq(s, 1, RFind(s, ":") - 1)),
                 ParseAddrPort(SubSeq(s, RFind(s, ":") + 1, Len(s))))
\* The dotted form ip.port: the text before the last dot is the ip, the
\* text after it the port (without a dot the ip part is empty).
ParseDottedAddr(s) ==
    SocketAddrOf(ParseIpAddr(SubSeq(s, 1, RFind(s, ".") - 1)),
                 ParseU16(SubSeq(s, RFind(s, ".") + 1, Len(s))))
\* The wildcard form: the text after the last '.' or ':' is the port.
ParseWildcardAddr(parts) ==
    SocketAddrOf(Some(Ip(0, 0, 0, 0)), ParseU16(parts[Len(parts)]))

\* Mutant: an address that cannot be parsed becomes 0.0.0.0:0.
ParseSocketAddr_Default(addr_str) ==
    Some(SocketAddr(Ip(0, 0, 0, 0), 0))
\* PortManager::parse_socket_addr: the wildcard form *.port or *:port, the
\* standard ip:port, then the dotted ip.port of BSD netstat.
ParseSocketAddr(addr_str) ==
    IF addr_str # << >> /\ addr_str[1] = "*"
        THEN ParseWildcardAddr(SplitBy(addr_str, {".", ":"}))
        ELSE OrElse(ParseStdSocketAddr(addr_str), ParseDottedAddr(addr_str))

\* The two header words of a netstat listing.
HeaderWords == { << "A", "c", "t", "i", "v", "e" >>, << "P", "r", "o", "t",
      "o" >> }

\* The record of a line of fields parts whose local address parsed: its
\* pid and name from the pid map, its remote address, its state.
RecordOfLine(parts, proto, pid_map, local_addr) ==
    ListedPort(local_addr.port, proto,
        IF local_addr.port \in DOMAIN pid_map
            THEN Some(pid_map[local_addr.port][1]) ELSE None,
        IF local_addr.port \in DOMAIN pid_map
            THEN Some(pid_map[local_addr.port][2]) ELSE None,
        local_addr,
        IF Len(parts) > 4 /\ parts[5] # << "*", ".", "*" >>
            THEN ParseSocketAddr(parts[5]) ELSE None,
        ConnectionStateFrom(
            IF proto = "Tcp"
                THEN (IF Len(parts) >= 6 THEN parts[6] ELSE << "U", "N", "K",
                      "N", "O", "W", "N" >>)
                ELSE << "L", "I", "S", "T", "E", "N" >>))
\* The fields of a line that is no header and has four of them or more.
ParseFields(parts, proto, pid_map, local_addr) ==
    IF local_addr.some
        THEN Some(RecordOfLine(parts, proto, pid_map, local_addr.v))
        ELSE None

\* PortManager::parse_netstat_line: None for a line of fewer than four
\* fields, a header line or a local address that does not parse; else the
\* record of the line.
ParseNetstatLine(line, proto, pid_map) ==
    LET parts == SplitWhitespace(line)
    IN  IF Len(parts) < 4 THEN None
        ELSE IF parts[1] \in HeaderWords THEN None
        ELSE ParseFields(parts, proto, pid_map, ParseSocketAddr(parts[4]))

\* A line of lsof -i -P -n as the regex of get_pid_port_mapping sees it:
\* whether the line matches, and the command, pid and port it captures.
LsofLine(cmd, pidText, portText) ==
    [matches |-> TRUE, command |-> cmd, pid |-> pidText, port |-> portText]
LsofOther == [matches |-> FALSE, command |-> << >>, pid |-> << >>,
              port |-> << >>]

\* HashMap::new() and HashMap::insert on the pid map.
EmptyMap == [po \in {} |-> << 0, << >> >>]
MapInsert(m, k, v) == [x \in DOMAIN m \cup {k} |-> IF x = k THEN v ELSE m[x]]

\* The loop of get_pid_port_mapping over the lines of the lsof output.
RECURSIVE MapOfLines(_)
MapOfLines(lines) ==
    IF lines = << >> THEN EmptyMap
    ELSE LET before == MapOfLines(SubSeq(lines, 1, Len(lines) - 1))
             l == lines[Len(lines)]
         IN  IF l.matches /\ ParseU32(l.pid) # -1 /\ ParseU16(l.port) # -1
                 THEN MapInsert(before, ParseU16(l.port),
                                << ParseU32(l.pid), l.command >>)
                 ELSE before

\* What get_pid_port_mapping returns: the error or the map.
MapResult(tag, m) == [tag |-> tag, map |-> m]

\* PortManager::get_pid_port_mapping: the error of a command that cannot be
\* executed is returned, a non-zero exit gives the empty map.
GetPidPortMapping(lsof) ==
    IF lsof.exit = "ioerr" THEN MapResult("Err", EmptyMap)
    ELSE IF lsof.exit = "fail" THEN MapResult("Ok", EmptyMap)
    ELSE MapResult("Ok", MapOfLines(lsof.out))

\* The records of the lines of a listing, in order.
OptionToSeq(o) == IF o.some THEN << o.v >> ELSE << >>
RECURSIVE ParsedLines(_, _, _)
ParsedLines(lines, proto, pid_map) ==
    IF lines = << >> THEN << >>
    ELSE OptionToSeq(ParseNetstatLine(Head(lines), proto, pid_map))
             \o ParsedLines(Tail(lines), proto, pid_map)

\* The lines parsed with the pid map that get_pid_port_mapping returned,
\* or its error.
ParseWithMap(lines, proto, pid_map) ==
    IF pid_map.tag = "Err" THEN Err("io")
    ELSE OkList(ParsedLines(lines, proto, pid_map.map))
\* PortManager::parse_netstat_output
ParseNetstatOutput(lines, proto, lsof) ==
    ParseWithMap(lines, proto, GetPidPortMapping(lsof))

\* PortManager::get_tcp_connections and get_udp_connections: netstat for
\* one protocol, then the parse of its stdout.
GetConnections(netstat, proto, lsof) ==
    IF netstat.exit = "ioerr" THEN Err("io")
    ELSE IF netstat.exit = "fail" THEN Err("netstat")
    ELSE ParseNetstatOutput(netstat.out, proto, lsof)

\* ports.extend(tcp?); ports.extend(udp?): the first error, or the records
\* of both.
ExtendBoth(tcp, udp) ==
    IF tcp.tag = "Err" THEN tcp
    ELSE IF udp.tag = "Err" THEN udp
    ELSE OkList(tcp.list \o udp.list)
\* A listing with the two errors dropped.
ExtendEither(tcp, udp) == OkList(tcp.list \o udp.list)

\* Mutant: a protocol whose listing failed is left out.
GetAllPorts_Partial(cmds) ==
    ExtendEither(GetConnections(cmds.tcp, "Tcp", cmds.lsof_tcp),
                 GetConnections(cmds.udp, "Udp", cmds.lsof_udp))
\* PortManager::get_all_ports: the TCP records, then the UDP records; the
\* first error ends the call.
GetAllPorts(cmds) ==
    ExtendBoth(GetConnections(cmds.tcp, "Tcp", cmds.lsof_tcp),
               GetConnections(cmds.udp, "Udp", cmds.lsof_udp))

\* The records of a listing that are kept by a filter, or its error.
ListeningOf(all) ==
    IF all.tag = "Err" THEN all
    ELSE OkList(SelectSeq(all.list, LAMBDA r : r.state = "Listen"))
NumberedOf(all, number) ==
    IF all.tag = "Err" THEN all
    ELSE OkList(SelectSeq(all.list, LAMBDA r : r.port = number))
DevelopmentOf(all) ==
    IF all.tag = "Err" THEN all
    ELSE OkList(SelectSeq(all.list, LAMBDA r : IsDevelopmentPort(r.port)))
\* PortManager::get_listening_ports
GetListeningPorts(cmds) == ListeningOf(GetAllPorts(cmds))
\* PortManager::get_port_by_number
GetPortByNumber(cmds, number) == NumberedOf(GetAllPorts(cmds), number)
\* PortManager::get_development_ports
GetDevelopmentPorts(cmds) == DevelopmentOf(GetAllPorts(cmds))

\* Lines of netstat -an: the two headers, sockets in the wildcard, dotted
\* and ip:port forms, and lines that hold no socket.
HeaderActive == << "A", "c", "t", "i", "v", "e", " ", "I", "n", "t", "e",
      "r", "n", "e", "t", " ", "c", "o", "n", "n", "e", "c", "t", "i", "o",
            "n", "s", " ", "(", "i", "n", "c", "l", "u", "d", "i", "n", "g",
                  " ", "s", "e", "r", "v", "e", "r", "s", ")" >>
HeaderProto ==
    << "P", "r", "o", "t", "o", " ", "R", "e", "c", "v", "-", "Q", " ", "S",
          "e", "n", "d", "-", "Q", " ", " ", "L", "o", "c", "a", "l", " ",
                "A", "d", "d", "r", "e", "s", "s", " ", " ", " ", "F", "o",
                      "r", "e", "i", "g", "n", " ", "A", "d", "d", "r", "e",
                            "s", "s", " ", " ", "(", "s", "t", "a", "t", "e",
                                  ")" >>
LineWildcard == << "t", "c", "p", "4", " ", " ", "0", " ", " ", "0", " ",
      " ", "*", ".", "8", "0", " ", " ", "*", ".", "*", " ", " ", "L", "I",
            "S", "T", "E", "N" >>
LineDotted == << "t", "c", "p", "4", " ", "0", " ", "0", " ", "1", "2", "7",
      ".", "0", ".", "0", ".", "1", ".", "8", "0", "8", "0", " ", "1", "0",
            ".", "0", ".", "0", ".", "2", ".", "4", "4", "3", " ", "E", "S",
                  "T", "A", "B", "L", "I", "S", "H", "E", "D" >>
LineColon == << "t", "c", "p", "4", " ", "0", " ", "0", " ", "1", "2", "7",
      ".", "0", ".", "0", ".", "1", ":", "2", "2", " ", "*", ".", "*", " ",
            "L", "I", "S", "T", "E", "N" >>
LineUdp == << "u", "d", "p", "4", " ", "0", " ", "0", " ", "*", ".", "5",
      "3" >>
LineNoPort == << "u", "d", "p", "4", " ", "0", " ", "0", " ", "*", ".", "*",
      " ", "*", ".", "*" >>
LineShort == << "t", "c", "p", "4", " ", "0", " ", "0" >>
LineBadIp == << "t", "c", "p", "4", " ", "0", " ", "0", " ", "l", "o", "c",
      "a", "l", "h", "o", "s", "t", ".", "8", "0", " ", "*", ".", "*", " ",
            "L", "I", "S", "T", "E", "N" >>
LineBigPort == << "t", "c", "p", "4", " ", "0", " ", "0", " ", "*", ".", "7",
      "0", "0", "0", "0", " ", "*", ".", "*", " ", "L", "I", "S", "T", "E",
            "N" >>
LineHeaderLike == << "A", "c", "t", "i", "v", "e", " ", "0", " ", "0", " ",
      "*", ".", "3", "0", "0", "0" >>
NetstatLines ==
    { HeaderActive, HeaderProto, LineWildcard, LineDotted, LineColon,
      LineUdp, LineNoPort, LineShort, LineBadIp, LineBigPort,
      LineHeaderLike, << >> }

\* What lsof did: it could not be executed, it exited non-zero, or it
\* printed lines.
LsofLines ==
    << LsofLine(<< "n", "o", "d", "e" >>, << "1" >>, << "8", "0" >>),
          LsofOther,
       LsofLine(<< "n", "g", "i", "n", "x" >>, << "2" >>, << "7", "0", "0",
             "0", "0" >>),
       LsofLine(<< "s", "s", "h", "d" >>, << "2" >>, << "2", "2" >>) >>
LsofOutcomes ==
    { Output("ioerr", << >>), Output("fail", << >>), Output("ok", << >>),
      Output("ok", LsofLines) }

\* What netstat did for one protocol.
TcpListings ==
    { << HeaderActive, HeaderProto, LineWildcard, LineDotted >>,
      << LineColon, LineShort >>, << HeaderActive, HeaderProto >> }
UdpListings ==
    { << HeaderActive, HeaderProto, LineUdp, LineNoPort >>, << LineUdp >>,
      << >> }
NetstatOutcomes(listings) ==
    { Output("ioerr", << >>), Output("fail", << >>) }
        \cup { Output("ok", l) : l \in listings }

\* The port numbers asked of get_port_by_number.
AskedPorts == {22, 53, 80}

\* parse_netstat_output called on the stdout of netstat, lsof doing what
\* the input says.
CallParseNetstatOutput ==
    /\ returned = "none"
    /\ output' = ParseNetstatOutput(input.lines, input.protocol, input.lsof)
    /\ returned' = "parse_netstat_output"
    /\ UNCHANGED << calleeVars, input >>

\* The four listing calls, the commands doing what the input says.
CallGetAllPorts ==
    /\ returned = "none"
    /\ output' = GetAllPorts(input)
    /\ returned' = "get_all_ports"
    /\ UNCHANGED << calleeVars, input >>
CallGetListeningPorts ==
    /\ returned = "none"
    /\ output' = GetListeningPorts(input)
    /\ returned' = "get_listening_ports"
    /\ UNCHANGED << calleeVars, input >>
CallGetPortByNumber ==
    /\ returned = "none"
    /\ output' = GetPortByNumber(input, input.number)
    /\ returned' = "get_port_by_number"
    /\ UNCHANGED << calleeVars, input >>
CallGetDevelopmentPorts ==
    /\ returned = "none"
    /\ output' = GetDevelopmentPorts(input)
    /\ returned' = "get_development_ports"
    /\ UNCHANGED << calleeVars, input >>


\* ======================================================== refresh timing
\* AppState.refresh_interval, in seconds.
RefreshInterval == 2

\* Mutant: the interval has to be exceeded.
ShouldRefresh_Exceeded ==
    auto_refresh /\ now - last_refresh > RefreshInterval
\* AppState::should_refresh; last_refresh.elapsed() is now - last_refresh.
ShouldRefresh ==
    auto_refresh /\ now - last_refresh >= RefreshInterval

\* A second passes.
Tick ==
    /\ now < MaxTime
    /\ now' = now + 1
    /\ UNCHANGED << killerVars, searchVars, appVars, callVars, monitorVars,
                    auto_refresh >>

\* AppEvent::Refresh in the event loop: refresh_data when should_refresh.
RefreshEvent ==
    /\ Running
    /\ Event
    /\ ShouldRefresh
    /\ \E inv \in Inventories, fail \in RefreshOutcomes, s \in CpuSamples,
          due \in BOOLEAN :
        RefreshData(inv, fail, s, due)
    /\ UNCHANGED << otherVars, app_mode, should_quit, searchUi, sortVars,
                    show_help, dialogVars, selectVars >>

\* The public field auto_refresh written.
SetAutoRefresh ==
    /\ \E b \in BOOLEAN : auto_refresh' = b
    /\ UNCHANGED << killerVars, searchVars, appVars, callVars, monitorVars,
                    now >>

\* should_refresh called.
CallShouldRefresh ==
    /\ output' = ShouldRefresh
    /\ returned' = "should_refresh"
    /\ UNCHANGED << calleeVars, input >>

\* ======================================================== ProcessMonitor
\* ProcessMonitor.update_interval: 1000 ms, in the seconds of the clock.
UpdateInterval == 1

\* ProcessMonitor::new: the manager holds the processes of the system, and
\* last_update is the time of the construction.
NewProcessMonitor(list) ==
    /\ last_update = now
    /\ inventory = list
    /\ manager_refreshes = 0

\* Mutant: the monitor updates on every call.
ShouldUpdate_Always == TRUE
\* ProcessMonitor::should_update
ShouldUpdate == now - last_update >= UpdateInterval

\* The head of the three accessors: when should_update, manager.refresh()
\* takes the processes of the system, list, and last_update is the time of
\* the call.
UpdateIfDue(list) ==
    IF ShouldUpdate
        THEN /\ inventory' = list
             /\ last_update' = now
             /\ manager_refreshes' = manager_refreshes + 1
        ELSE UNCHANGED monitorVars

\* processes.sort_by(|a, b| b.memory.cmp(&a.memory)); truncate(limit)
GetTopMemoryProcesses(l, limit) ==
    Truncate(StableSort(l, [j \in 1..Len(l) |-> [k \in 1..Len(l) |->
                 CmpNum(l[k].memory, l[j].memory)]]), limit)

\* The processes of the system at a call.
SystemProcesses == { InventoryA.processes, InventoryB.processes }
\* The limits asked of the two top lists.
Limits == 0..MaxListLen

\* ProcessMonitor::get_processes
MonitorGetProcesses ==
    /\ \E list \in SystemProcesses : UpdateIfDue(list)
    /\ output' = Returns(inventory')
    /\ returned' = "get_processes"
    /\ UNCHANGED << killerVars, searchVars, appVars, clockVars, input >>

\* ProcessMonitor::get_top_cpu_processes
MonitorGetTopCpuProcesses ==
    /\ \E list \in SystemProcesses : UpdateIfDue(list)
    /\ \E limit \in Limits :
           output' = GetTopCpuProcesses(inventory', limit)
    /\ returned' = "get_top_cpu_processes"
    /\ UNCHANGED << killerVars, searchVars, appVars, clockVars, input >>

\* ProcessMonitor::get_top_memory_processes
MonitorGetTopMemoryProcesses ==
    /\ \E list \in SystemProcesses : UpdateIfDue(list)
    /\ \E limit \in Limits :
           output' = Returns(GetTopMemoryProcesses(inventory', limit))
    /\ returned' = "get_top_memory_processes"
    /\ UNCHANGED << killerVars, searchVars, appVars, clockVars, input >>

\* ------------------------------------------------------------ specification
KillerIdle ==
    /\ op = "none"
    /\ pc = "idle"
    /\ force = FALSE
    /\ mode = "none"
    /\ pid = 0
    /\ i = 0
    /\ kres = "none"
    /\ result = NoResult
    /\ name = ""
    /\ pids = << >>
    /\ pi = 0
    /\ killed_pids = << >>
    /\ nres = NoResult
    /\ ci = 0
    /\ all_killed = << >>
    /\ lookups = << >>
    /\ nameErr = FALSE
    /\ success_count = 0
    /\ start = 0
    /\ end = 0
    /\ port = 0
    /\ occupied = {}
    /\ checks = << >>
    /\ termSent = 0
    /\ killSent = 0
    /\ gPolls = 0
    /\ fPolls = 0
    /\ gRunning = 0
    /\ fRunning = 0
    /\ sigOk = 0
    /\ lastPoll = "none"
    /\ path = << >>
    /\ signalled = {}
    /\ killLog = << >>
    /\ okLog = << >>
    /\ nameExit = "none"
    /\ portOut = NoOutput

Init == KillerIdle /\ SearchIdle /\ AppIdle /\ CallIdle

\* kill_process_by_pid alone, with every invoked command returning and the
\* awaited sleep completing (weak fairness of the next step).
NextPid == CallKillByPid \/ Protocol \/ ReturnByPid
SpecPid == Init /\ [][NextPid]_vars /\ WF_vars(NextPid)

\* matches_search called once, on any record of the environment with any
\* sample query.
InitSearch ==
    /\ KillerIdle
    /\ \/ rec \in ProcessRecords
       \/ rec \in PortRecords
       \/ rec \in ConnectionRecords
    /\ query \in Queries
    /\ searched = FALSE
    /\ matched = FALSE
    /\ AppIdle
    /\ CallIdle
NextSearch == ProcessMatches \/ PortMatches \/ ConnectionMatches
SpecSearch == InitSearch /\ [][NextSearch]_vars

\* The dashboard: AppState::new on an inventory of the system, then any key
\* event and any refresh, until the application quits.
InitApp ==
    /\ KillerIdle
    /\ SearchIdle
    /\ \E inv \in Inventories : NewAppState(inv)
    /\ MonitorIdle
    /\ CallIdle
NextApp ==
    \/ CtrlC \/ Refresh
    \/ DialogConfirm \/ DialogCancel
    \/ CriticalType \/ CriticalBackspace \/ CriticalEsc
    \/ SearchEnter \/ SearchEsc \/ SearchBackspace \/ SearchChar
    \/ ThemeUp \/ ThemeDown \/ ThemeEnter \/ ThemeLeave
    \/ MoveUp \/ MoveDown \/ PageUp \/ PageDown \/ GoToTop \/ GoToBottom
    \/ SwitchToMode \/ ToggleHelp \/ EnterSearchMode \/ ToggleSelection
    \/ PrimaryAction \/ KillAction \/ CycleSort \/ ClearSelection
    \/ HandleEscape \/ QuitKey
SpecApp == InitApp /\ [][NextApp]_vars

\* format_memory called once on a sample byte count.
InitFormat ==
    /\ KillerIdle
    /\ SearchIdle
    /\ AppIdle
    /\ input \in MemorySamples
    /\ output = 0
    /\ returned = "none"
NextFormat == CallFormatMemory
SpecFormat == InitFormat /\ [][NextFormat]_vars

\* One ordering of a sample process list by CPU, by the view or by the
\* monitor.
InitSort ==
    /\ KillerIdle
    /\ SearchIdle
    /\ AppIdle
    /\ input \in [list : CpuLists, limit : 0..MaxListLen,
                  order : {"Ascending", "Descending"}]
    /\ output = 0
    /\ returned = "none"
NextSort == CallSortProcesses \/ CallGetTopCpuProcesses
SpecSort == InitSort /\ [][NextSort]_vars

\* One parse of a netstat listing of at most MaxLines lines.
InitNetstat ==
    /\ KillerIdle
    /\ SearchIdle
    /\ AppIdle
    /\ input \in [lines : SeqsUpTo(NetstatLines, MaxLines),
                  protocol : {"Tcp", "Udp"}, lsof : LsofOutcomes]
    /\ output = 0
    /\ returned = "none"
NextNetstat == CallParseNetstatOutput
SpecNetstat == InitNetstat /\ [][NextNetstat]_vars

\* One listing call, each of the four commands it runs doing one of the
\* things it can do.
InitPorts ==
    /\ KillerIdle
    /\ SearchIdle
    /\ AppIdle
    /\ input \in [tcp : NetstatOutcomes(TcpListings), lsof_tcp : LsofOutcomes,
                  udp : NetstatOutcomes(UdpListings), lsof_udp : LsofOutcomes,
                  number : AskedPorts]
    /\ output = 0
    /\ returned = "none"
NextPorts ==
    \/ CallGetAllPorts
    \/ CallGetListeningPorts
    \/ CallGetPortByNumber
    \/ CallGetDevelopmentPorts
SpecPorts == InitPorts /\ [][NextPorts]_vars

\* The dashboard's data refreshed by the key and by the timer while time
\* passes.
InitTimer == InitApp
NextTimer ==
    \/ Tick \/ Refresh \/ RefreshEvent \/ SetAutoRefresh
    \/ CallShouldRefresh
SpecTimer == InitTimer /\ [][NextTimer]_vars

\* A ProcessMonitor whose accessors are called while time passes.
InitMonitor ==
    /\ KillerIdle
    /\ SearchIdle
    /\ NewAppState([processes |-> << >>, ports |-> << >>,
                    connections |-> << >>])
    /\ \E list \in SystemProcesses : NewProcessMonitor(list)
    /\ CallIdle
NextMonitor ==
    \/ Tick \/ MonitorGetProcesses \/ MonitorGetTopCpuProcesses
    \/ MonitorGetTopMemoryProcesses
SpecMonitor == InitMonitor /\ [][NextMonitor]_vars


Next ==
    \/ CallKillByPid \/ Protocol \/ ReturnByPid
    \/ CallKillByPort \/ FindPidByPort \/ ReturnByPort
    \/ CallKillByName \/ FindPidsByName \/ NameLoopNext \/ NameCollect
    \/ NameLoopEnd \/ ReturnByName
    \/ CallCleanup \/ CleanupNext \/ CleanupCollect \/ CleanupEnd
    \/ CallDialogKill \/ DialogNext \/ DialogCollect \/ DialogEnd
    \/ CallFindPort \/ CheckPort \/ ScanEnd
Spec == Init /\ [][Next]_vars
\* ================================================================== claims
\* A kill attempt is in progress or has just returned, so its observations
\* (termSent, gPolls, ...) are those of the attempt.
AttemptOver ==
    \/ pc = "returned"
    \/ pc = "done" /\ op \in {"by_pid", "by_port"} /\ kres # "none"
AttemptSeen == InProtocol \/ AttemptOver
\* The attempt was made through kill_process_by_pid(pid, force).
ViaKillByPid == op \in {"by_pid", "by_name", "cleanup", "dialog"}
\* Every signal delivery succeeded and every poll found the process running.
CleanRun ==
    /\ sigOk = termSent + killSent
    /\ gRunning = gPolls
    /\ fRunning = fPolls
IsPrefix(s, t) == Len(s) <= Len(t) /\ SubSeq(t, 1, Len(s)) = s
FailPath == << "Running", "WaitingGraceful", "WaitingForced", "Failed" >>

\* C1: in kill_process_by_pid(pid, force = false) TERM is the first signal:
\* no poll and no KILL happens before the one TERM.  The graceful loop polls
\* at most 50 times; a poll that finds the process not running ends the
\* attempt at once with success and without KILL; KILL is sent only after
\* all 50 graceful polls found the process running.
C1_GracefulProtocol ==
    (AttemptSeen /\ ViaKillByPid /\ ~force) =>
        /\ gPolls <= GracefulPolls
        /\ (gPolls > 0 \/ killSent > 0 \/ pc # "running") => termSent = 1
        /\ killSent > 0 => (gPolls = GracefulPolls /\ gRunning = GracefulPolls)
        /\ (lastPoll = "gone" /\ killSent = 0) =>
              /\ AttemptOver
              /\ kres = "Ok"
              /\ gRunning = gPolls - 1
              /\ fPolls = 0
        /\ gRunning < gPolls => (AttemptOver /\ killSent = 0)
C1_Witness ==
    /\ op = "by_pid" /\ ~force /\ pc = "done"
    /\ result = OkUnit
    /\ termSent = 1 /\ gPolls = 3 /\ gRunning = 2 /\ killSent = 0

\* C2: every kill_process_by_pid call, for either value of force and
\* whatever the signal deliveries and liveness checks answer, makes at most
\* 50 graceful and 20 forced polls and reaches a final result.
C2_Terminates ==
    /\ [](gPolls <= GracefulPolls /\ fPolls <= ForcePolls)
    /\ <>(pc = "done" /\ result.tag \in {"Ok", "Err"})
C2_Witness ==
    /\ pc = "done" /\ result.tag = "Err"
    /\ gPolls = GracefulPolls /\ fPolls = ForcePolls

\* C3: when the process never exits and every signal delivery and liveness
\* check succeeds, kill_process_by_pid(pid, false) goes Running ->
\* WaitingGraceful -> WaitingForced -> Failed and no other way: one TERM, 50
\* polls, one KILL, 20 polls, then the error "still running".
C3_NeverExits ==
    (AttemptSeen /\ ViaKillByPid /\ ~force /\ CleanRun) =>
        /\ IsPrefix(path, FailPath)
        /\ termSent <= 1 /\ killSent <= 1
        /\ AttemptOver =>
              /\ path = FailPath
              /\ kres = "StillRunning"
              /\ termSent = 1 /\ gPolls = GracefulPolls
              /\ killSent = 1 /\ fPolls = ForcePolls
        /\ (pc = "done" /\ op = "by_pid") => result = Err("StillRunning")
C3_Witness ==
    /\ op = "by_pid" /\ ~force /\ pc = "done" /\ CleanRun
    /\ result = Err("StillRunning")
    /\ path = FailPath

\* C4: kill_process_by_pid(pid, force = true) skips the graceful phase: it
\* never sends TERM and never polls gracefully; its only signal is one KILL,
\* followed by at most 20 liveness polls.
C4_ForceSkipsGraceful ==
    (AttemptSeen /\ ViaKillByPid /\ force) =>
        /\ termSent = 0 /\ gPolls = 0
        /\ \A k \in 1..Len(path) : path[k] # "WaitingGraceful"
        /\ killSent <= 1
        /\ pc # "running" => killSent = 1
        /\ fPolls <= ForcePolls
C4_Witness ==
    /\ op = "by_pid" /\ force /\ pc = "done"
    /\ termSent = 0 /\ killSent = 1 /\ fPolls = ForcePolls
    /\ result = Err("StillRunning")
\* The pids of a kill log, and those of its entries that returned Ok.
LogPids(log) == [k \in 1..Len(log) |-> log[k][1]]
OkEntries(log) == SelectSeq(log, LAMBDA e : e[2])
LogOkPids(log) == LogPids(OkEntries(log))
\* The pids the loop has taken from its list so far.
Taken == { pids[k] : k \in 1..pi }

\* C5: kill_processes_by_name attempts every pid of the lookup's list once,
\* in list order, also after an earlier pid's kill failed; its success list
\* is exactly the attempted pids whose kill returned Ok, in order.  A kill
\* failure never makes it return an error: only the lookup itself can.  When
\* the lookup finds no process the result is Ok(empty) and no kill command
\* was invoked.
C5_ByNameResult ==
    op = "by_name" =>
        /\ IsPrefix(LogPids(killLog), pids)
        /\ signalled \subseteq Taken
        /\ (pc = "done" /\ result.tag = "Ok") =>
              /\ LogPids(killLog) = pids
              /\ result.list = LogOkPids(killLog)
        /\ (pc = "done" /\ result.tag = "Err") =>
              /\ nameExit \in {"ioerr", "ok"}
              /\ killLog = << >>
        /\ (pc = "done" /\ (nameExit = "fail" \/ (result.tag = "Ok" /\ pids = << >>)))
              => (result = OkList(<< >>) /\ signalled = {} /\ killLog = << >>)
C5_Witness ==
    /\ op = "by_name" /\ pc = "done"
    /\ Len(pids) = 2
    /\ killLog = << << pids[1], FALSE >>, << pids[2], TRUE >> >>
    /\ result = OkList(<< pids[2] >>)

\* C6: in a bulk kill (kill_processes_by_name, cleanup_dev_processes, the
\* dashboard's multi-process kill) the pids are handled one after another in
\* list order: while the protocol runs for the element taken last, every
\* earlier element's kill has returned, and no kill command was invoked for
\* a later element.
C6_Sequential ==
    op \in {"by_name", "cleanup", "dialog"} =>
        /\ (InProtocol \/ pc = "returned") =>
              /\ pi \in 1..Len(pids)
              /\ pid = pids[pi]
              /\ Len(killLog) = pi - 1
        /\ pc \in {"nameloop", "dialogloop"} => Len(killLog) = pi
        /\ IsPrefix(LogPids(killLog), pids)
        /\ signalled \subseteq Taken
C6_Witness ==
    /\ op = "dialog" /\ pc = "graceful"
    /\ pi = 2 /\ Len(pids) = 2 /\ gPolls >= 1
    /\ killLog = << << pids[1], TRUE >> >>

\* C7: cleanup_dev_processes looks up every pattern of its catalog in
\* order, also after an earlier kill_processes_by_name returned an error or
\* a pid failed to die, and always returns Ok with the pids whose kill
\* succeeded, pattern after pattern; it never returns an error.
C7_CleanupCompletes ==
    op = "cleanup" =>
        /\ result.tag # "Err"
        /\ lookups = SubSeq(Catalog, 1, IF pc = "lookup" THEN ci - 1 ELSE ci)
        /\ pc \in {"cleanuploop", "done"} => all_killed = okLog
        /\ pc = "done" =>
              /\ lookups = Catalog
              /\ result = OkList(okLog)
C7_Witness ==
    /\ op = "cleanup" /\ pc = "done"
    /\ nameErr
    /\ Len(result.list) = 2

\* What the port lookup reported first: the pid of the first line of its
\* output, -1 when there is none.
FirstReported ==
    IF portOut.exit = "ok" /\ portOut.out # << >>
        THEN ParseU32(Trim(Head(portOut.out)))
        ELSE -1

\* C8: kill_process_by_port runs the graceful protocol on the first pid the
\* lookup reports and on no other: its first signal is TERM (KILL only by
\* escalation after 50 polls), and on success it returns that pid.
C8_ByPortGraceful ==
    op = "by_port" =>
        /\ mode \in {"none", "kill_graceful"}
        /\ AttemptSeen => (FirstReported # -1 /\ pid = FirstReported)
        /\ signalled \subseteq {FirstReported}
        /\ (killSent > 0 \/ gPolls > 0) => termSent = 1
        /\ killSent > 0 => (gPolls = GracefulPolls /\ gRunning = GracefulPolls)
        /\ (pc = "done" /\ result.tag = "Ok") =>
              /\ result.num = FirstReported
              /\ kres = "Ok"
              /\ termSent = 1
              /\ signalled = {FirstReported}
C8_Witness ==
    /\ op = "by_port" /\ pc = "done" /\ result.tag = "Ok"
    /\ Len(portOut.out) = 2
    /\ ParseU32(Trim(portOut.out[2])) \notin {-1, result.num}

\* C9: when the port lookup resolves no pid (lsof exits non-zero, or prints
\* nothing), kill_process_by_port returns the NotFound error and invokes no
\* kill command.
C9_PortNotFound ==
    (/\ op = "by_port"
     /\ \/ portOut.exit = "fail"
        \/ portOut.exit = "ok" /\ portOut.out = << >>) =>
        /\ pc = "done"
        /\ result = Err("NotFound")
        /\ signalled = {}
        /\ termSent = 0 /\ killSent = 0 /\ gPolls = 0 /\ fPolls = 0
C9_Witness ==
    /\ op = "by_port" /\ pc = "done"
    /\ portOut = Output("ok", << >>)
    /\ result = Err("NotFound")

\* The free ports of the range, and the least element of a set of numbers.
FreeInRange == { p \in start..end : p \notin occupied }
Min(S) == CHOOSE m \in S : \A x \in S : m <= x
IoFailed == \E k \in 1..Len(checks) : checks[k][2] = "ioerr"

\* C10 as stated: find_available_port returns the lowest free port of
\* [start, end], RangeExhausted exactly when no port of the range is free,
\* and never a port outside the range.
C10_Original ==
    (op = "find_port" /\ pc = "done") =>
        /\ FreeInRange # {} => result = OkNum(Min(FreeInRange))
        /\ result = Err("RangeExhausted") <=> FreeInRange = {}
        /\ result.tag = "Ok" => result.num \in start..end

\* C10 as amended: the same, provided every occupancy check could be
\* executed; when executing a check fails, the scan stops at that port, whose
\* predecessors in the range were all found occupied, and returns the io
\* error.  A returned port is never outside the range.
C10_Amended ==
    (op = "find_port" /\ pc = "done") =>
        /\ ~IoFailed =>
              /\ FreeInRange # {} => result = OkNum(Min(FreeInRange))
              /\ result = Err("RangeExhausted") <=> FreeInRange = {}
        /\ IoFailed =>
              /\ result = Err("Io")
              /\ checks[Len(checks)] = << port, "ioerr" >>
              /\ port \in start..end
              /\ \A p \in start..(port - 1) : p \in occupied
        /\ result.tag = "Ok" => result.num \in start..end
C10_Witness ==
    /\ op = "find_port" /\ pc = "done"
    /\ ~IoFailed
    /\ result.tag = "Ok"
    /\ result.num > start
    /\ end > result.num

\* ------------------------------------------------------------ search claims
\* The query is the character c followed by the text s.
Prefixed(c, s) == << c >> \o s
IsProcess == searched /\ rec.kind = "process"
IsPort == searched /\ rec.kind = "port"
IsPortOrConnection == searched /\ rec.kind \in {"port", "connection"}

\* C16: a port record or a connection record whose correlated pid is present
\* matches '#n' exactly when that pid equals n.
C16_SamePidPattern ==
    \A n \in QueryNums :
        (IsPortOrConnection /\ rec.pid.some /\ query = Prefixed("#", NumToString(n)))
            => (matched <=> rec.pid.v = n)

\* The name fields of a record hold the text q (already lower-cased).
NameHolds(r, q) ==
    IF r.kind = "process" THEN Contains(ToLowercase(r.name), q)
    ELSE \/ r.process_name.some /\ Contains(ToLowercase(r.process_name.v), q)
         \/ r.service_name.some /\ Contains(ToLowercase(r.service_name.v), q)
\* The decimal form of the record's numeric identifier.
IdText(r) == IF r.kind = "process" THEN NumToString(r.pid) ELSE NumToString(r.port)
\* The plain substring search: the name fields, and the identifier's text.
PlainSubstring(r, q) ==
    NameHolds(r, ToLowercase(q)) \/ Contains(IdText(r), ToLowercase(q))
Unprefixed(q) == q = << >> \/ Head(q) \notin {"#", ":", ">"}

\* C17: a query without prefix is a case-insensitive substring match against
\* the name fields and the decimal form of the numeric identifier, so every
\* process matches the decimal form of its own pid and every port that of
\* its own port.
C17_BareNumberFallback ==
    /\ ((IsProcess \/ IsPort) /\ Unprefixed(query))
            => (matched <=> PlainSubstring(rec, query))
    /\ (IsProcess /\ query = NumToString(rec.pid)) => matched
    /\ (IsPort /\ query = NumToString(rec.port)) => matched

\* The text after the prefix of a (lower-cased) query is one the pattern of
\* that prefix accepts: a pid, a port or a port range, a threshold with its
\* unit.
WellShaped(q) ==
    LET rest == Tail(q)
    IN  CASE Head(q) = "#" -> ParseU32(rest) # -1
          [] Head(q) = ":" ->
                IF Contains(rest, << "-" >>)
                    THEN /\ ParseU16(SubSeq(rest, 1, FirstDash(rest) - 1)) # -1
                         /\ ParseU16(SubSeq(rest, FirstDash(rest) + 1, Len(rest))) # -1
                    ELSE ParseU16(rest) # -1
          [] Head(q) = ">" ->
                \E u \in { << "%" >>, << "g", "b" >>, << "m", "b" >> } :
                    /\ HasSuffix(rest, u)
                    /\ ParseF32(BeforeSuffix(rest, u)).k # "err"
          [] OTHER -> FALSE
Malformed(q) == ~Unprefixed(q) /\ ~WellShaped(ToLowercase(q))

\* C18: for a process or port record and a query that starts with '#', ':'
\* or '>' and whose remainder does not parse, matches_search returns what the
\* plain substring search of the whole query returns, which is true exactly
\* when a name field holds the query's text.
C18_MalformedFallsBack ==
    ((IsProcess \/ IsPort) /\ Malformed(query))
        => /\ matched <=> PlainSubstring(rec, query)
           /\ matched <=> NameHolds(rec, ToLowercase(query))
C18_Witness ==
    /\ IsProcess \/ IsPort
    /\ Malformed(query)
    /\ matched

\* C19: a port record matches ':n' exactly when its port is n, and ':a-b'
\* exactly when a <= port <= b.
C19_PortPattern ==
    /\ \A n \in SearchPorts :
        (IsPort /\ query = Prefixed(":", NumToString(n)))
            => (matched <=> rec.port = n)
    /\ \A a, b \in SearchPorts :
        (IsPort /\ query = Prefixed(":", NumToString(a) \o << "-" >> \o NumToString(b)))
            => (matched <=> (a <= rec.port /\ rec.port <= b))
C19_Witness ==
    /\ IsPort
    /\ \E a \in SearchPorts :
        /\ a < rec.port
        /\ query = Prefixed(":", NumToString(a) \o << "-" >> \o NumToString(rec.port))
    /\ matched

\* C20: a process record matches '#n' exactly when its pid is n, whatever
\* its name.
C20_PidPattern ==
    \A n \in QueryNums :
        (IsProcess /\ query = Prefixed("#", NumToString(n)))
            => (matched <=> rec.pid = n)
C20_Witness ==
    /\ IsProcess
    /\ query = Prefixed("#", NumToString(rec.pid))
    /\ ~Contains(ToLowercase(rec.name), ToLowercase(query))
    /\ matched

\* --------------------------------------------------------- dashboard claims
\* A step that is one call of refresh_data, and how the call ended.
RefreshCall == refreshes' = refreshes + 1
RefreshSucceeds == RefreshCall /\ lastRefresh' = "ok"
RefreshFails == RefreshCall /\ lastRefresh' # "ok"

\* C11: after any number of refresh_data calls, successful or failed,
\* cpu_history has exactly 100 entries; a successful refresh drops the oldest
\* sample and appends the newest, a failed refresh does not change the
\* length.
C11_HistoryKeepsLength ==
    /\ [](Len(cpu_history) = HistoryLen)
    /\ [][RefreshSucceeds =>
            \E s \in CpuSamples : cpu_history' = Append(Tail(cpu_history), s)]_vars
    /\ [][RefreshFails => Len(cpu_history') = Len(cpu_history)]_vars
\* A successful refresh has pushed a sample and a failed one followed it.
C11_Witness ==
    /\ refreshes >= 2
    /\ lastRefresh # "ok"
    /\ cpu_history[HistoryLen] \in CpuSamples
    /\ cpu_history[1] = 0

\* C12: when refresh_data fails at an acquisition step, processes, ports and
\* connections all still hold the records of the previous snapshot.
C12_FailedRefreshKeepsSnapshot ==
    [][RefreshFails =>
          /\ processes' = processes
          /\ ports' = ports
          /\ connections' = connections]_vars

\* Every element of the list f is an element of the list l.
Within(f, l) == \A k \in DOMAIN f : \E j \in DOMAIN l : l[j] = f[k]

\* C13: every record of filtered_processes, filtered_ports and
\* filtered_connections is a record of the current processes, ports and
\* connections respectively, and no filtered list is longer than its
\* collection.
C13_FilteredWithinCollections ==
    /\ Within(filtered_processes, processes)
    /\ Len(filtered_processes) <= Len(processes)
    /\ Within(filtered_ports, ports)
    /\ Len(filtered_ports) <= Len(ports)
    /\ Within(filtered_connections, connections)
    /\ Len(filtered_connections) <= Len(connections)

\* C14: whenever search_query is not empty, every record of the filtered
\* list of the current view satisfies matches_search with search_query.
C14_FilteredMatchQuery ==
    search_query # << >> =>
        /\ app_mode = "ProcessView" =>
               \A k \in DOMAIN filtered_processes :
                   MatchesSearchProcess(filtered_processes[k], search_query)
        /\ app_mode = "PortView" =>
               \A k \in DOMAIN filtered_ports :
                   MatchesSearchPort(filtered_ports[k], search_query)
        /\ app_mode = "ConnectionView" =>
               \A k \in DOMAIN filtered_connections :
                   MatchesSearchConnection(filtered_connections[k], search_query)

\* The length of the filtered list of the current view.
CurrentLen ==
    CASE app_mode = "ProcessView" -> Len(filtered_processes)
      [] app_mode = "PortView" -> Len(filtered_ports)
      [] app_mode = "ConnectionView" -> Len(filtered_connections)
      [] OTHER -> 0

\* C15: in a list view, selected_index is below the length of the view's
\* filtered list, or that list is empty.
C15_SelectionWithinList ==
    app_mode \in ListViews => (CurrentLen = 0 \/ selected_index < CurrentLen)
\* The selection stands on the last of several rows of a list that a search
\* has filtered and a refresh has replaced.
C15_Witness ==
    /\ app_mode \in ListViews
    /\ search_query # << >>
    /\ refreshes > 0
    /\ selected_index > 0
    /\ selected_index = CurrentLen - 1


\* --------------------------------------------------------- threshold claims
\* The thresholds that are numbers, and the query > N unit.
ThresholdNums == {0, 1, 25, 511, 512, 1024}
ThresholdQuery(n, unit) == << ">" >> \o NumToString(n) \o unit
\* The real quotient bytes / unit is strictly greater than n.
QuotientAbove(bytes, unit, n) ==
    \/ bytes \div unit > n
    \/ bytes \div unit = n /\ bytes % unit > 0

\* C21: for a process record and a threshold N, matches_search with '>N%'
\* is true exactly when cpu_usage is strictly greater than N.
C21_CpuThreshold ==
    \A n \in ThresholdNums :
        (searched /\ IsProcess /\ query = ThresholdQuery(n, << "%" >>)) =>
            (matched <=> (rec.cpu_usage.k = "num" /\ rec.cpu_usage.v > n))
\* A process whose CPU equals the threshold was searched and did not match.
C21_Witness ==
    /\ searched
    /\ IsProcess
    /\ rec.cpu_usage = Num(25)
    /\ query = ThresholdQuery(25, << "%" >>)
    /\ ~matched

\* C22: for a process record and a threshold N, matches_search with '>NMB'
\* is true exactly when memory / 1024 / 1024 is strictly greater than N, and
\* with '>NGB' exactly when memory / 1024 / 1024 / 1024 is.
C22_MemoryThreshold ==
    \A n \in ThresholdNums :
        /\ (searched /\ IsProcess
                /\ query \in {ThresholdQuery(n, << "M", "B" >>),
                              ThresholdQuery(n, << "m", "b" >>)}) =>
               (matched <=> QuotientAbove(rec.memory, MiB, n))
        /\ (searched /\ IsProcess /\ query = ThresholdQuery(n, << "G", "B" >>)) =>
               (matched <=> QuotientAbove(rec.memory, GiB, n))


\* ------------------------------------------------------ format_memory claim
\* The text s is a number (digits, at most with a decimal point inside)
\* followed by the unit u.
NumberWithUnit(s, u) ==
    /\ HasSuffix(s, u)
    /\ LET n == BeforeSuffix(s, u)
       IN  /\ n # << >>
           /\ IsDigit(n[1])
           /\ IsDigit(n[Len(n)])
           /\ \A k \in 1..Len(n) : IsDigit(n[k]) \/ n[k] = "."

FourCycles(m, by) == NextSortBy(m, NextSortBy(m, NextSortBy(m, NextSortBy(m, by))))

\* C24: in ProcessView, four consecutive cycle_sort invocations leave sort_by
\* equal to the value it had before the first one; the key order is
\* Name -> Pid -> Cpu -> Memory -> Name.
C24_FourCyclesReturn ==
    /\ NextSortBy("ProcessView", "Name") = "Pid"
    /\ NextSortBy("ProcessView", "Pid") = "Cpu"
    /\ NextSortBy("ProcessView", "Cpu") = "Memory"
    /\ NextSortBy("ProcessView", "Memory") = "Name"
    /\ app_mode = "ProcessView" => FourCycles("ProcessView", sort_by) = sort_by

\* C25: cycle_sort in ProcessView or ConnectionView leaves sort_order
\* unchanged, and cycle_sort in PortView leaves sort_by unchanged.
C25_KeyAndDirectionIndependent ==
    [][CycleSort =>
          /\ app_mode \in {"ProcessView", "ConnectionView"} =>
                 sort_order' = sort_order
          /\ app_mode = "PortView" => sort_by' = sort_by]_vars


\* Two CPU values of the list l are incomparable.
Incomparable(l) == Len(l) >= 2 /\ \E k \in DOMAIN l : l[k].cpu_usage.k = "nan"

\* C26: ordering processes by CPU never fails when two CPU values are
\* incomparable (NaN): sort_processes with key Cpu and
\* get_top_cpu_processes both return a result.
C26_NaNNeverFails ==
    (returned \in {"sort_processes", "get_top_cpu_processes"}
        /\ Incomparable(input.list)) =>
        ~output.panicked

\* ---------------------------------------------------------------- C27-C29
\* A listing call has returned.
ListingCalls ==
    {"get_all_ports", "get_listening_ports", "get_port_by_number",
     "get_development_ports"}
\* The correlation command failed: it could not be executed or it exited
\* non-zero.
LsofFailed(o) == o.exit \in {"ioerr", "fail"}
\* Every record of every line of the two listings, nothing known of pids.
UnenrichedRecords ==
    ParsedLines(input.tcp.out, "Tcp", EmptyMap)
        \o ParsedLines(input.udp.out, "Udp", EmptyMap)

\* C27: when both netstat listings succeed and each run of the pid/port
\* correlation command fails, whether it cannot be executed or exits
\* non-zero, get_all_ports returns Ok with every parsed port record, the
\* pid and the process name of each unset.
C27_CorrelationFailureTolerated ==
    (/\ returned = "get_all_ports"
     /\ input.tcp.exit = "ok"
     /\ input.udp.exit = "ok"
     /\ LsofFailed(input.lsof_tcp)
     /\ LsofFailed(input.lsof_udp))
        => /\ output.tag = "Ok"
           /\ output.list = UnenrichedRecords
           /\ \A k \in 1..Len(output.list) :
                  /\ ~output.list[k].pid.some
                  /\ ~output.list[k].process_name.some

\* C28: when the TCP or the UDP netstat command cannot be executed or
\* exits non-zero, each of the four listing calls returns an error and no
\* record of the other protocol.
C28_NoPartialListing ==
    (/\ returned \in ListingCalls
     /\ (input.tcp.exit # "ok" \/ input.udp.exit # "ok"))
        => output.tag = "Err" /\ output.list = << >>
\* The UDP listing failed after the TCP listing gave records, and the call
\* returned an error.
C28_Witness ==
    /\ returned = "get_all_ports"
    /\ input.tcp.exit = "ok"
    /\ input.lsof_tcp.exit = "ok"
    /\ ParsedLines(input.tcp.out, "Tcp", EmptyMap) # << >>
    /\ input.udp.exit = "fail"
    /\ output.tag = "Err"

\* The text of an IPv4 address.
IpText(ip) ==
    NumToString(ip[1]) \o << "." >> \o NumToString(ip[2]) \o << "." >>
        \o NumToString(ip[3]) \o << "." >> \o NumToString(ip[4])
ListedIps == { Ip(127, 0, 0, 1), Ip(10, 0, 0, 2) }
ListedNumbers == {22, 53, 80, 443, 3000, 8080}
\* The port numbers a local address names in one of the accepted forms:
\* the wildcard *.port or *:port, ip:port, or the dotted ip.port.
AcceptedPorts(addr) ==
    { n \in ListedNumbers :
        \/ addr = << "*", "." >> \o NumToString(n)
        \/ addr = << "*", ":" >> \o NumToString(n)
        \/ \E ip \in ListedIps :
               \/ addr = IpText(ip) \o << ":" >> \o NumToString(n)
               \/ addr = IpText(ip) \o << "." >> \o NumToString(n) }
\* The ports of the lines that are kept, in the order of the lines: a
\* line is kept when it has four fields or more, is no header line and
\* its fourth field is a local address in an accepted form.
RECURSIVE KeptPorts(_)
KeptPorts(lines) ==
    IF lines = << >> THEN << >>
    ELSE LET fields == SplitWhitespace(Head(lines))
             kept == /\ Len(fields) >= 4
                     /\ fields[1] \notin HeaderWords
                     /\ AcceptedPorts(fields[4]) # {}
         IN  (IF kept THEN << CHOOSE n \in AcceptedPorts(fields[4]) : TRUE >>
              ELSE << >>) \o KeptPorts(Tail(lines))

\* C29: with the correlation command executed, parse_netstat_output
\* returns Ok whatever the lines are, and the ports of its records are, in
\* input order, the ports of the local addresses of the lines that have
\* four fields or more, are no header and have a local address in an
\* accepted form; every other line gives no record.
C29_LinesToRecords ==
    (returned = "parse_netstat_output" /\ input.lsof.exit # "ioerr")
        => /\ output.tag = "Ok"
           /\ [k \in 1..Len(output.list) |-> output.list[k].port]
                  = KeptPorts(input.lines)
           /\ \A k \in 1..Len(output.list) :
                  output.list[k].local_address.port = output.list[k].port
\* A malformed line was dropped and the line after it gave its record.
C29_Witness ==
    /\ returned = "parse_netstat_output"
    /\ input.lines = << LineBadIp, LineDotted >>
    /\ output.tag = "Ok"
    /\ Len(output.list) = 1
    /\ output.list[1].port = 8080
    /\ output.list[1].local_address = SocketAddr(Ip(127, 0, 0, 1), 8080)

\* ------------------------------------------------------------------- C30
\* A step that is a call of should_refresh: nothing but the returned value
\* changes.
ShouldRefreshCall ==
    /\ returned' = "should_refresh"
    /\ UNCHANGED << now, auto_refresh, refreshes >>

\* C30: a successful refresh_data sets last_refresh to the time of the call
\* and should_refresh is false right after it; a failed refresh_data, as
\* every other step, leaves last_refresh as it is, so that last_refresh is
\* the time of the last successful refresh (of the construction before the
\* first); should_refresh returns true exactly when auto_refresh is set and
\* at least refresh_interval has passed since then, and false whenever
\* auto_refresh is not set.
C30_RefreshTiming ==
    [][/\ RefreshSucceeds => (last_refresh' = now /\ ~ShouldRefresh')
       /\ ~RefreshSucceeds => last_refresh' = last_refresh
       /\ ShouldRefreshCall =>
              /\ output' = (auto_refresh
                            /\ now - last_refresh >= RefreshInterval)
              /\ (~auto_refresh => output' = FALSE)]_vars
\* should_refresh returned true when the interval had passed since a
\* successful refresh that was not the first thing to happen.
C30_Witness ==
    /\ returned = "should_refresh"
    /\ output = TRUE
    /\ lastRefresh = "ok"
    /\ last_refresh > 0
    /\ auto_refresh
    /\ now - last_refresh >= RefreshInterval

\* ------------------------------------------------------------------- C31
\* A step that is a call of one of the three read accessors of the monitor.
MonitorAccessors ==
    { "get_processes", "get_top_cpu_processes", "get_top_memory_processes" }
\* The manager was refreshed in the step.
ManagerRefreshed == manager_refreshes' # manager_refreshes
\* The interval of the monitor has elapsed at the time of the step.
IntervalElapsed == now - last_update >= UpdateInterval

\* C31: a call of get_processes, get_top_cpu_processes or
\* get_top_memory_processes refreshes the manager at most once, and does so
\* exactly when the update interval has elapsed at the call; last_update is
\* set to the time of the call exactly then; a call before the interval has
\* elapsed leaves the inventory and last_update as they are, and answers
\* from the inventory it holds.
C31_ThrottledRefresh ==
    [][/\ manager_refreshes' \in
              { manager_refreshes, manager_refreshes + 1 }
       /\ ManagerRefreshed => (IntervalElapsed /\ now' = now
                               /\ returned' \in MonitorAccessors)
       /\ (now' = now /\ IntervalElapsed) => ManagerRefreshed
       /\ ManagerRefreshed => last_update' = now
       /\ ~ManagerRefreshed =>
              UNCHANGED << inventory, last_update >>
       /\ (now' = now /\ returned' = "get_processes") =>
              output' = Returns(inventory')]_vars
\* get_top_memory_processes was called after the interval had elapsed: the
\* manager was refreshed once, at the time of the call, and the answer is the
\* top of the inventory it took.
C31_Witness ==
    /\ returned = "get_top_memory_processes"
    /\ manager_refreshes = 1
    /\ last_update > 0
    /\ now = last_update
    /\ output.list = GetTopMemoryProcesses(inventory, Len(output.list))
    /\ Len(inventory) = 2

\* ------------------------------------------------------------------- C36
\* The first signal of the attempt was sent and could not be delivered: the
\* kill command exited non-zero or could not be executed.
FirstSignalFailed == termSent + killSent >= 1 /\ sigOk = 0

\* C36: when the first signal of kill_process_by_pid (TERM in graceful mode,
\* KILL in forced mode) cannot be delivered, the call returns an error at
\* once: that signal is the only one sent, no liveness poll is made, and
\* graceful mode sends no KILL.
C36_FirstSignalFailure ==
    (op = "by_pid" /\ FirstSignalFailed) =>
        /\ pc \in {"returned", "done"}
        /\ kres = (IF force THEN "KillFailed" ELSE "TermFailed")
           \/ kres = "Io"
        /\ gPolls = 0 /\ fPolls = 0
        /\ lastPoll = "none"
        /\ termSent = (IF force THEN 0 ELSE 1)
        /\ killSent = (IF force THEN 1 ELSE 0)
        /\ path = << "Running", "Error" >>
        /\ pc = "done" => result = Err(kres)
\* A graceful kill whose TERM exited non-zero has returned its error.
C36_Witness ==
    /\ op = "by_pid" /\ ~force /\ pc = "done"
    /\ FirstSignalFailed
    /\ result = Err("TermFailed")
\* ------------------------------------------------------------------- C37
\* C37: kill_process_by_pid returns Ok only when the most recent liveness
\* check of the call found the process not running, in graceful and in
\* forced mode; after a last check that found it alive (or that failed), the
\* result is an error.
C37_SuccessMeansGone ==
    (op = "by_pid" /\ pc \in {"returned", "done"}) =>
        /\ kres = "Ok" => (lastPoll = "gone" /\ gPolls + fPolls >= 1)
        /\ (pc = "done" /\ result = OkUnit) => lastPoll = "gone"
        /\ lastPoll \in {"running", "ioerr"} => kres \notin {"Ok", "none"}
        /\ pc = "done" => (result = OkUnit <=> kres = "Ok")
\* A forced kill returned Ok on a poll that found the process gone, after a
\* poll that had found it running.
C37_Witness ==
    /\ op = "by_pid" /\ force /\ pc = "done"
    /\ result = OkUnit
    /\ fPolls = 2 /\ fRunning = 1
    /\ lastPoll = "gone"

\* ------------------------------------------------------------------- C32
\* A step in which execute_dialog_action asked ProcessKiller for a kill.
DialogKill == dialog_kills'.calls > dialog_kills.calls
\* The kill of the step is a bulk kill.
BulkKill == confirmation_dialog.action = "Processes"

\* C32: a confirmed kill that succeeds, and every bulk kill, is followed in
\* the same key handler by a refresh_data that takes the inventory anew, so
\* that the processes held afterwards were acquired after the kill; a single
\* kill that fails is followed by no refresh_data.
C32_RefreshAfterKill ==
    [][DialogKill =>
          /\ (BulkKill \/ dialog_kills'.ok) =>
                 (RefreshCall /\ dialog_kills'.fresh)
          /\ (~BulkKill /\ ~dialog_kills'.ok) => ~RefreshCall]_vars

\* ------------------------------------------------------------------- C33
\* All of the state but should_quit and the count of handled events.
AllButQuit ==
    << killerVars, searchVars, callVars, clockVars, monitorVars, app_mode,
       searchUi, selected_index, sortVars, show_help, dialogVars, dataVars,
       filterVars, selectVars, dialog_kills >>

\* C33: in every state of the running dashboard (an open confirmation
\* dialog, search mode, the theme selector and the help overlay included)
\* Ctrl+C is handled, and handling it sets should_quit, asks for no kill and
\* changes nothing else.
C33_CtrlCQuits ==
    /\ []((Running /\ events < MaxEvents) => ENABLED CtrlC)
    /\ [][CtrlC => (should_quit' /\ UNCHANGED AllButQuit)]_vars
\* Ctrl+C has ended the dashboard while a critical dialog was open with a
\* part of YES typed.
C33_Witness ==
    /\ should_quit
    /\ confirmation_dialog.danger = "Critical"
    /\ critical_confirmation_buffer = << "Y", "E" >>
    /\ dialog_kills.calls = 0
\* Ctrl+C has ended the dashboard in search mode, in the theme selector and
\* under the help overlay.
QuitInSearch == should_quit /\ search_active /\ search_query # << >>
QuitInTheme == should_quit /\ app_mode = "ThemeSelector"
QuitInHelp == should_quit /\ show_help

\* ------------------------------------------------------------------- C34
\* The list f holds the records of the list l, each as often as l does.
Occurrences(l, r) == Cardinality({ k \in DOMAIN l : l[k] = r })
SameRecords(f, l) ==
    /\ Len(f) = Len(l)
    /\ \A k \in DOMAIN l : Occurrences(f, l[k]) = Occurrences(l, l[k])
\* The three filtered lists hold the complete collections.
Unfiltered ==
    /\ SameRecords(filtered_processes, processes)
    /\ SameRecords(filtered_ports, ports)
    /\ SameRecords(filtered_connections, connections)
\* The filtered list of the current view holds the records of the view's
\* collection that match the query (all of them for the empty query).
QueryResultShown ==
    IF search_query = << >> THEN Unfiltered
    ELSE CASE app_mode = "ProcessView" ->
                  SameRecords(filtered_processes,
                      SelectSeq(processes,
                          LAMBDA r : MatchesSearchProcess(r, search_query)))
           [] app_mode = "PortView" ->
                  SameRecords(filtered_ports,
                      SelectSeq(ports,
                          LAMBDA r : MatchesSearchPort(r, search_query)))
           [] app_mode = "ConnectionView" ->
                  SameRecords(filtered_connections,
                      SelectSeq(connections,
                          LAMBDA r : MatchesSearchConnection(r, search_query)))
           [] OTHER -> TRUE
\* The filtered lists are what apply_search_filter makes of the collections.
FilterInStep ==
    Filtered = ApplySearchFilter(app_mode, search_query, processes, ports,
                   connections, Filtered, sort_by, sort_order)

\* C34: Esc in search mode leaves search mode, empties search_query and
\* makes the three filtered lists hold the complete processes, ports and
\* connections again; Enter in search mode leaves search mode, keeps the
\* query, and the filtered lists keep showing the result of the query: they
\* do not change when they were that result before the key.
C34_SearchEscAndEnter ==
    [][/\ SearchEsc =>
              /\ ~search_active'
              /\ search_query' = << >>
              /\ Unfiltered'
              /\ UNCHANGED << processes, ports, connections >>
       /\ SearchEnter =>
              /\ ~search_active'
              /\ search_query' = search_query
              /\ QueryResultShown'
              /\ FilterInStep => UNCHANGED filterVars]_vars
\* Enter has left search mode with a query that keeps one process of two.
C34_Witness ==
    /\ ~search_active
    /\ search_query # << >>
    /\ app_mode = "ProcessView"
    /\ Len(processes) = 2
    /\ Len(filtered_processes) = 1
    /\ QueryResultShown

\* ------------------------------------------------------------------- C35
\* The rows marked by a selection.
Marked(items) == { items[k] : k \in DOMAIN items }
\* selected_items after toggle_selection on the row, twice.
ToggledTwice(items, multi, row) ==
    Toggled(Toggled(items, multi, row), Toggled(items, multi, row) # << >>,
            row)

\* C35: in every state of the dashboard multi_select_mode is on exactly when
\* selected_items is not empty, and selected_items holds no index twice;
\* toggling a row twice gives the rows that were marked before, and
\* multi_select_mode as it was.
C35_SelectionConsistent ==
    /\ multi_select_mode <=> selected_items # << >>
    /\ \A j, k \in DOMAIN selected_items :
           selected_items[j] = selected_items[k] => j = k
    /\ \A row \in 0..CurrentLen :
           /\ Marked(ToggledTwice(selected_items, multi_select_mode, row))
                  = Marked(selected_items)
           /\ Len(ToggledTwice(selected_items, multi_select_mode, row))
                  = Len(selected_items)
\* Two rows of the process list are marked, the second row first.
C35_Witness ==
    /\ multi_select_mode
    /\ selected_items = << 1, 0 >>
    /\ app_mode = "ProcessView"

\* ------------------------------------------------------------------- C38
\* A step that closes the open dialog.
DialogClosed == InDialog /\ confirmation_dialog' = NoDialog
\* The typed buffer of a critical dialog lacks only the S of YES.
YesButLast == critical_confirmation_buffer = << "Y", "E" >>

DialogPids ==
    CASE confirmation_dialog.action = "Process" ->
             { confirmation_dialog.target }
      [] confirmation_dialog.action = "Processes" ->
             { confirmation_dialog.pids[k] :
                   k \in DOMAIN confirmation_dialog.pids }
      [] OTHER -> {}
\* show_kill_process_dialog gives the process the danger level Critical.
ClassifiedCritical(p) == KillProcessDialog(p).danger = "Critical"

\* C39: a kill asked of ProcessKiller for a process that the single-process
\* dialog classifies as Critical (pid below 100, or a name containing
\* "system" or "kernel") comes from a critical dialog, confirmed by the
\* typed YES, also when the process is one of the rows of a multi-selection.
C39_CriticalNeedsTypedYes ==
    [][DialogKill =>
          \A p \in DialogPids :
              ClassifiedCritical(p) =>
                  /\ confirmation_dialog.danger = "Critical"
                  /\ YesButLast]_vars

\* ------------------------------------------------------------------- C40
\* The pid on a row of the process list; 0 when the list has no such row.
PidOnRow(list, row) == IF row < Len(list) THEN list[row + 1].pid ELSE 0
\* The pids on the marked rows of the process list.
MarkedPids(list) ==
    [k \in DOMAIN selected_items |-> PidOnRow(list, selected_items[k])]

\* C40: while rows of the process view stay marked, every marked index
\* stays inside filtered_processes and keeps pointing at the process it
\* pointed at, whatever refresh, sort or search changes the list, so that
\* the pids of the bulk dialog are those of the processes that were marked.
C40_MarkedRowsKeepTheirProcess ==
    [][(/\ app_mode = "ProcessView"
        /\ selected_items # << >>
        /\ selected_items' = selected_items) =>
           /\ \A k \in DOMAIN selected_items :
                  selected_items[k] < Len(filtered_processes')
           /\ MarkedPids(filtered_processes') = MarkedPids(filtered_processes)
      ]_vars

====
